---- MODULE Spec2Model ----
(***************************************************************************)
(* State-machine model of the incident assistant backend:                  *)
(*   - MonitoringService (start / stop / performHealthCheck and the        *)
(*     handlers it awaits), src/src/services/monitoring.service.js         *)
(*   - the engineer routes of src/src/api/incident.routes.js and the       *)
(*     system-event route of src/src/api/system.routes.js                  *)
(*   - the NVIDIA NIM analysis cascade of                                  *)
(*     src/src/huggins/huggingface.client.js and analyzeIncidentReadOnly   *)
(*                                                                         *)
(* Node runs one handler at a time but lets handlers interleave at every   *)
(* await, so every awaited store or network operation is one atomic step   *)
(* and each handler is a process with a program counter.                   *)
(* Times are in minutes.                                                   *)
(***************************************************************************)
EXTENDS Integers, Sequences, FiniteSets, TLC

(* ------------------------------ bounds --------------------------------- *)
MaxCycles == 2      \* performHealthCheck invocations launched in one run
MaxIncidents == 2   \* incident documents in the store
MaxLogs == 4        \* log documents in the store
MaxTime == 60       \* the clock stops advancing here
MaxTimers == 2      \* timer handles the runtime can hand out
MaxStarts == 2      \* start() calls counted by the observer
MaxStops == 2       \* stop() calls counted by the observer
MaxFaults == 2      \* store operations that throw in one run
MaxTimeline == 3    \* timeline length up to which an analysis is recorded
MaxAgeErrors == 2   \* error logs of one age in a drawn log list
MaxAgeInfos == 1    \* info logs of one age in a drawn log list

(* ------------------------- program constants --------------------------- *)
ThirtyMin == 30     \* 30 * 60 * 1000 ms, the stability window
LogLimit == 10      \* .limit(10) of checkIncidentHealth
TickMinutes == 30   \* granularity at which the model samples the clock

Unset == -1         \* an absent Date / Number field
NoHandle == 0       \* intervalId = null
NoIncident == 0     \* findOne(...) = null, or no serviceId

Services == {1}     \* Service.find({ enabled: true }): one service registered
TwoServices == {1, 2}   \* the same with two services registered
CycleIds == 1..MaxCycles

OpenStatuses == {"open", "investigating"}
ResolvedStatuses == {"resolved", "auto-resolved"}
ValidStatuses == {"open", "investigating", "resolved"}

\* Answers of a monitored service's health endpoint (axios.get with
\* validateStatus: () => true); "error" is a transport error thrown by axios.
ProbeResponses ==
    { [kind |-> "response", http |-> 200, status |-> "healthy",
       responseTime |-> 100, heapUsed |-> 100, activeFailureModes |-> {}],
      [kind |-> "response", http |-> 503, status |-> "unhealthy",
       responseTime |-> 100, heapUsed |-> 100,
       activeFailureModes |-> {"database"}],
      [kind |-> "error", http |-> 0, status |-> "none",
       responseTime |-> 0, heapUsed |-> 0, activeFailureModes |-> {}] }

\* A wider range of answers of a health endpoint: status code, status
\* field, response time, heap use and active failure modes vary.
HealthAnswers ==
    { [kind |-> "response", http |-> h, status |-> st, responseTime |-> rt,
       heapUsed |-> hp, activeFailureModes |-> fm] :
         h \in {200, 503}, st \in {"healthy", "degraded", "unhealthy"},
         rt \in {100, 3000}, hp \in {100, 600},
         fm \in SUBSET {"database", "auth"} }
    \cup { [kind |-> "error", http |-> 0, status |-> "none",
            responseTime |-> 0, heapUsed |-> 0, activeFailureModes |-> {}] }

NoResponse == [kind |-> "none", http |-> 0, status |-> "none",
               responseTime |-> 0, heapUsed |-> 0, activeFailureModes |-> {}]

VARIABLES
    isRunning,      \* MonitoringService.isRunning
    intervalId,     \* MonitoringService.intervalId (NoHandle = null)
    timers,         \* active setInterval handles of the runtime
    cycles,         \* the performHealthCheck invocations, by launch order
    launched,       \* how many performHealthCheck invocations were launched
    incidents,      \* the Incident collection, in insertion order
    logs,           \* the Log collection: per incident, in insertion order
    now,            \* Date.now(), in minutes
    patch,          \* the PATCH /:id/status request in flight
    evt,            \* the POST /events request in flight
    resWrites,      \* observer: per incident, writes of its resolution fields
    startCalls,     \* observer: number of start() calls made
    stopCalls,      \* observer: number of stop() calls made
    nimApiAvailable, \* huggingface.client.js: let nimApiAvailable
    NIM_API_KEY,    \* TRUE iff process.env.NVIDIA_NIM_API_KEY is not empty
    analysis,       \* the analyzeIncidentReadOnly call in flight
    services,       \* the enabled documents of the Service collection
    faults,         \* observer: store operations that have thrown
    approval,       \* the POST /:id/approve-action request in flight
    mcp,            \* the tools/call request or agent action last served
    server          \* the startup sequence of the process, and its exit

vars == << isRunning, intervalId, timers, cycles, launched, incidents, logs,
           now, patch, evt, resWrites, startCalls, stopCalls, nimApiAvailable,
           NIM_API_KEY, analysis, services, faults, approval, mcp,
           server >>

monitorVars == << isRunning, intervalId, timers, startCalls, stopCalls >>
storeVars == << incidents, logs, resWrites >>
analysisVars == << nimApiAvailable, NIM_API_KEY, analysis >>
envVars == << services, faults >>

(* ------------------------------ helpers -------------------------------- *)
Max(S) == CHOOSE m \in S : \A x \in S : x <= m
Min(S) == CHOOSE m \in S : \A x \in S : m <= x

RECURSIVE DescSeq(_)
DescSeq(S) == IF S = {} THEN << >> ELSE << Max(S) >> \o DescSeq(S \ {Max(S)})

IncidentIds == 1..Len(incidents)

\* Log.find({ incidentId }) in insertion (createdAt ascending) order. The
\* collection is kept per incident: no query of the program reads the logs
\* of two incidents together.
LogsOf(lg, id) == IF id \in DOMAIN lg THEN lg[id] ELSE << >>

RECURSIVE SumLen(_, _)
SumLen(lg, n) == IF n = 0 THEN 0 ELSE Len(lg[n]) + SumLen(lg, n - 1)
TotalLogs == SumLen(logs, Len(logs))

\* Log.create({ incidentId: id, ... }) on collection lg
LogCreate(lg, id, l) ==
    IF id \in DOMAIN lg THEN [lg EXCEPT ![id] = Append(@, l)] ELSE lg

\* .sort({ createdAt: -1 }).limit(n): the n newest, kept here oldest first
Newest(s, n) == IF Len(s) <= n THEN s ELSE SubSeq(s, Len(s) - n + 1, Len(s))

CountLevel(s, level) == Len(SelectSeq(s, LAMBDA l : l.level = level))

NewLog(id, level, message) ==
    [incidentId |-> id, level |-> level, message |-> message, createdAt |-> now]

TimelineEvent(event, status, actor) ==
    [event |-> event, status |-> status, actor |-> actor]

\* The document every creation path builds: one incident_detected event,
\* logCount = errorCount = 1, no resolution fields.
NewIncident(svc, title, severity, category, status) ==
    [ svc |-> svc, title |-> title, severity |-> severity,
      category |-> category, status |-> status,
      timeline |-> << TimelineEvent("incident_detected", status, "system") >>,
      logCount |-> 1, errorCount |-> 1, createdAt |-> now,
      resolvedAt |-> Unset, resolutionTime |-> Unset, resolvedBy |-> "unset" ]

\* Incident.findOne({ serviceId, status: { $in: [open, investigating] } })
FindOpenIncident(svc) ==
    LET hits == { i \in IncidentIds : incidents[i].svc = svc
                                      /\ incidents[i].status \in OpenStatuses }
    IN  IF hits = {} THEN NoIncident ELSE Min(hits)

OpenCount(svc) ==
    Cardinality({ i \in IncidentIds : incidents[i].svc = svc
                                      /\ incidents[i].status \in OpenStatuses })

IdleCycle ==
    [ pc |-> "idle", src |-> "none", todo |-> << >>, svcs |-> << >>,
      handler |-> "none", existing |-> NoIncident, resp |-> NoResponse ]

IdlePatch == [ pc |-> "idle", id |-> NoIncident, status |-> "none",
               oldStatus |-> "none", createdAt |-> Unset,
               outcome |-> "none" ]

IdleEvt == [ pc |-> "idle", id |-> NoIncident, type |-> "none" ]

\* No approve-action request in flight and none answered.
IdleApproval == [ pc |-> "idle", id |-> NoIncident, actionIndex |-> 0,
                  status |-> "none", outcome |-> "none" ]

\* No tools/call request and no agent action served yet. via names the
\* entry point, ran is the tool implementation that was called ("none" when
\* none was), result what it returned.
IdleMcp == [ pc |-> "idle", via |-> "none", name |-> "none",
             id |-> NoIncident, ran |-> "none", outcome |-> "none",
             result |-> << >> ]

\* { isDegrading: false, degradationRate: 0 }; a rate is kept as the pair
\* << numerator, denominator >> of a fraction.
NoTrend == [isDegrading |-> FALSE, degradationRate |-> << 0, 1 >>]

\* No analysis call in flight and none answered. entry names the function
\* called, status the incident.status its findById returned.
IdleAnalysis ==
    [ pc |-> "idle", entry |-> "none", id |-> NoIncident,
      status |-> "none", task |-> "none",
      text |-> {}, logs |-> << >>,
      trail |-> << >>, via |-> "none",
      severity |-> "", category |-> "", rootCause |-> "",
      trendAnalysis |-> NoTrend, suggestedActions |-> << >>,
      statusSuggestion |-> "", outcome |-> "none" ]

(* --------------------------- initial state ----------------------------- *)
Init ==
    /\ isRunning = FALSE
    /\ intervalId = NoHandle
    /\ timers = {}
    /\ cycles = [c \in CycleIds |-> IdleCycle]
    /\ launched = 0
    /\ incidents = << >>
    /\ logs = << >>
    /\ now = 0
    /\ patch = IdlePatch
    /\ evt = IdleEvt
    /\ resWrites = << >>
    /\ startCalls = 0
    /\ stopCalls = 0
    /\ nimApiAvailable = TRUE
    /\ NIM_API_KEY = TRUE
    /\ analysis = IdleAnalysis
    /\ services = Services
    /\ faults = 0
    /\ approval = IdleApproval
    /\ mcp = IdleMcp
    /\ server = "scheduled"

(* ------------------- MonitoringService: start / stop ------------------- *)
\* A call of performHealthCheck(): it runs up to its first await, the
\* Incident.find of line 61, which is then pending.
LaunchCycle(src) ==
    /\ launched < MaxCycles
    /\ launched' = launched + 1
    /\ cycles' = [cycles EXCEPT ![launched + 1] =
                     [IdleCycle EXCEPT !.pc = "findOpen", !.src = src]]

SetInterval ==
    LET h == Min((1..MaxTimers) \ timers)
    IN  /\ (1..MaxTimers) \ timers # {}
        /\ intervalId' = h
        /\ timers' = timers \cup {h}

\* Variant: start() without its isRunning guard.
startUnguarded ==
    /\ startCalls < MaxStarts
    /\ startCalls' = startCalls + 1
    /\ isRunning' = TRUE
    /\ SetInterval
    /\ LaunchCycle("immediate")
    /\ UNCHANGED analysisVars
    /\ UNCHANGED envVars
    /\ UNCHANGED << approval, mcp, server >>
    /\ UNCHANGED << incidents, logs, now, patch, evt, resWrites, stopCalls >>

\* start(): a no-op when already running; otherwise set the flag, schedule
\* the recurring check and run one check immediately.
start ==
    /\ startCalls < MaxStarts
    /\ startCalls' = startCalls + 1
    /\ IF isRunning
         THEN UNCHANGED << isRunning, intervalId, timers, cycles, launched >>
         ELSE /\ isRunning' = TRUE
              /\ SetInterval
              /\ LaunchCycle("immediate")
    /\ UNCHANGED analysisVars
    /\ UNCHANGED envVars
    /\ UNCHANGED << approval, mcp, server >>
    /\ UNCHANGED << incidents, logs, now, patch, evt, resWrites, stopCalls >>

\* Variant: stop() clears the flag but leaves the interval scheduled.
stopFlagOnly ==
    /\ stopCalls < MaxStops
    /\ stopCalls' = stopCalls + 1
    /\ isRunning' = FALSE
    /\ UNCHANGED analysisVars
    /\ UNCHANGED envVars
    /\ UNCHANGED << approval, mcp, server >>
    /\ UNCHANGED << timers, intervalId, cycles, launched, incidents, logs,
                    now, patch, evt, resWrites, startCalls >>

\* Variant: stop() clears the held interval but leaves the flag set.
stopHandleOnly ==
    /\ stopCalls < MaxStops
    /\ stopCalls' = stopCalls + 1
    /\ IF intervalId # NoHandle
         THEN /\ timers' = timers \ {intervalId}
              /\ intervalId' = NoHandle
         ELSE UNCHANGED << timers, intervalId >>
    /\ UNCHANGED analysisVars
    /\ UNCHANGED envVars
    /\ UNCHANGED << approval, mcp, server >>
    /\ UNCHANGED << isRunning, cycles, launched, incidents, logs, now, patch,
                    evt, resWrites, startCalls >>

\* stop(): clear the held interval, if any, and clear the flag.
stop ==
    /\ stopCalls < MaxStops
    /\ stopCalls' = stopCalls + 1
    /\ IF intervalId # NoHandle
         THEN /\ timers' = timers \ {intervalId}
              /\ intervalId' = NoHandle
         ELSE UNCHANGED << timers, intervalId >>
    /\ isRunning' = FALSE
    /\ UNCHANGED analysisVars
    /\ UNCHANGED envVars
    /\ UNCHANGED << approval, mcp, server >>
    /\ UNCHANGED << cycles, launched, incidents, logs, now, patch, evt,
                    resWrites, startCalls >>

\* The callback of an active setInterval handle fires.
timerTick(h) ==
    /\ h \in timers
    /\ LaunchCycle("timer")
    /\ UNCHANGED analysisVars
    /\ UNCHANGED envVars
    /\ UNCHANGED << approval, mcp, server >>
    /\ UNCHANGED << isRunning, intervalId, timers, incidents, logs, now,
                    patch, evt, resWrites, startCalls, stopCalls >>

(* ------------------- performHealthCheck, step by step ------------------ *)
SetCycle(c, r) == cycles' = [cycles EXCEPT ![c] = r]

RECURSIVE AscSeq(_)
AscSeq(S) == IF S = {} THEN << >> ELSE << Min(S) >> \o AscSeq(S \ {Min(S)})

\* monitorExternalServices is entered: Service.find({ enabled: true }). The
\* Service collection does not change here, so the read is taken together
\* with the step that ends the incident loop; with no service the check
\* is over (simulateSystemEvents is off: ENABLE_RANDOM_EVENTS = "false").
EnterServices(cy) ==
    [cy EXCEPT !.todo = << >>,
               !.svcs = AscSeq(services),
               !.pc = IF services = {} THEN "done" ELSE "probe"]

\* After an incident of the snapshot has been dealt with.
NextIncident(cy) ==
    IF Tail(cy.todo) = << >>
      THEN EnterServices(cy)
      ELSE [cy EXCEPT !.todo = Tail(cy.todo), !.pc = "chkLogs"]

\* After a service of the list has been dealt with.
NextService(cy) ==
    [cy EXCEPT !.svcs = Tail(cy.svcs),
               !.pc = IF Tail(cy.svcs) = << >> THEN "done" ELSE "probe",
               !.handler = "none", !.existing = NoIncident,
               !.resp = NoResponse]

\* Incident.find({ status: { $in: [open, investigating] } })
\*         .sort({ createdAt: -1 }): the documents as read now.
OpenSnapshot ==
    LET ids == DescSeq({ i \in IncidentIds :
                            incidents[i].status \in OpenStatuses })
    IN  [k \in 1..Len(ids) |->
            [id |-> ids[k], status |-> incidents[ids[k]].status,
             createdAt |-> incidents[ids[k]].createdAt]]

performHealthCheck(c) ==
    /\ cycles[c].pc = "findOpen"
    /\ LET snap == OpenSnapshot
       IN  IF snap = << >>
             THEN SetCycle(c, EnterServices(cycles[c]))
             ELSE SetCycle(c, [cycles[c] EXCEPT !.todo = snap,
                                               !.pc = "chkLogs"])
    /\ UNCHANGED analysisVars
    /\ UNCHANGED envVars
    /\ UNCHANGED << approval, mcp, server >>
    /\ UNCHANGED << monitorVars, launched, storeVars, now, patch, evt >>

\* The decision of checkIncidentHealth on the (at most LogLimit) newest logs
\* lg of an incident whose snapshot status is status, at time t.
ShouldAutoResolve(status, lg, t) ==
    LET recentLogs == SelectSeq(lg, LAMBDA l : t - l.createdAt < ThirtyMin)
        errorLogs == SelectSeq(lg, LAMBDA l : l.level = "error")
    IN  /\ Len(lg) # 0
        /\ status = "investigating"
        /\ CountLevel(recentLogs, "error") = 0
        /\ CountLevel(recentLogs, "warning") < 2
        /\ errorLogs # << >>
        /\ t - errorLogs[Len(errorLogs)].createdAt > ThirtyMin

\* checkIncidentHealth up to its call of autoResolveIncident: Log.find and
\* the decision. (No path of the program writes a warning-level log other
\* than detectSlowDegradation, which needs more than five of them, so that
\* branch is never entered and is left out.)
checkIncidentHealth(c) ==
    /\ cycles[c].pc = "chkLogs"
    /\ LET inc == Head(cycles[c].todo)
           lg == Newest(LogsOf(logs, inc.id), LogLimit)
       IN  IF ShouldAutoResolve(inc.status, lg, now)
             THEN SetCycle(c, [cycles[c] EXCEPT !.pc = "autoUpd"])
             ELSE SetCycle(c, NextIncident(cycles[c]))
    /\ UNCHANGED analysisVars
    /\ UNCHANGED envVars
    /\ UNCHANGED << approval, mcp, server >>
    /\ UNCHANGED << monitorVars, launched, storeVars, now, patch, evt >>

\* Variant: the update sets the timeline instead of pushing onto it.
AutoResolvedRewriting(d, inc) ==
    [d EXCEPT !.status = "auto-resolved",
              !.resolvedAt = now,
              !.resolutionTime = now - inc.createdAt,
              !.resolvedBy = "ai-auto",
              !.timeline = << TimelineEvent("auto_resolve_detected",
                                            "resolved", "system") >>]

\* The update document of autoResolveIncident, applied to stored incident d
\* for the snapshot inc.
AutoResolved(d, inc) ==
    [d EXCEPT !.status = "auto-resolved",
              !.resolvedAt = now,
              !.resolutionTime = now - inc.createdAt,
              !.resolvedBy = "ai-auto",
              !.timeline = Append(@, TimelineEvent("auto_resolve_detected",
                                                   "resolved", "system"))]

\* autoResolveIncident: Incident.findByIdAndUpdate
autoResolveIncident(c) ==
    /\ cycles[c].pc = "autoUpd"
    /\ LET inc == Head(cycles[c].todo)
       IN  /\ incidents' = [incidents EXCEPT
                               ![inc.id] = AutoResolved(@, inc)]
           /\ resWrites' = [resWrites EXCEPT ![inc.id] = @ + 1]
    /\ SetCycle(c, [cycles[c] EXCEPT !.pc = "autoLog"])
    /\ UNCHANGED analysisVars
    /\ UNCHANGED envVars
    /\ UNCHANGED << approval, mcp, server >>
    /\ UNCHANGED << monitorVars, launched, logs, now, patch, evt >>

\* autoResolveIncident: Log.create
autoResolveLog(c) ==
    /\ cycles[c].pc = "autoLog"
    /\ TotalLogs < MaxLogs
    /\ logs' = LogCreate(logs, Head(cycles[c].todo).id,
                         NewLog(Head(cycles[c].todo).id, "info",
                                "auto_resolved"))
    /\ SetCycle(c, NextIncident(cycles[c]))
    /\ UNCHANGED analysisVars
    /\ UNCHANGED envVars
    /\ UNCHANGED << approval, mcp, server >>
    /\ UNCHANGED << monitorVars, launched, incidents, resWrites, now,
                    patch, evt >>

isHealthy(r) == r.http = 200 /\ r.status = "healthy"

\* The loop turn with a healthy branch that records the recovery: an info
\* log on the open incident of the service.
monitorServiceAnnouncingRecovery(c, r) ==
    /\ cycles[c].pc = "probe"
    /\ IF r.kind = "response" /\ isHealthy(r)
         THEN LET existingIncident ==
                      FindOpenIncident(Head(cycles[c].svcs))
              IN  /\ SetCycle(c, NextService(cycles[c]))
                  /\ IF existingIncident # NoIncident /\ TotalLogs < MaxLogs
                       THEN logs' = LogCreate(logs, existingIncident,
                                       NewLog(existingIncident, "info",
                                              "service_recovered"))
                       ELSE UNCHANGED logs
         ELSE LET existingIncident ==
                      FindOpenIncident(Head(cycles[c].svcs))
              IN  /\ SetCycle(c, [cycles[c] EXCEPT
                        !.handler = IF r.kind = "error" THEN "unreachable"
                                                        ELSE "unhealthy",
                        !.resp = r,
                        !.existing = existingIncident,
                        !.pc = IF existingIncident # NoIncident
                                 THEN "hLog" ELSE "hCreate"])
                  /\ UNCHANGED logs
    /\ UNCHANGED analysisVars
    /\ UNCHANGED envVars
    /\ UNCHANGED << approval, mcp, server >>
    /\ UNCHANGED << monitorVars, launched, incidents, resWrites, now,
                    patch, evt >>

\* One turn of the loop of monitorExternalServices up to the first store
\* read of the handler it calls, for the answer r of the service: axios.get
\* of the health endpoint, the verdict, and for a failed service the
\* Incident.findOne of handleServiceUnhealthy (a response that is not
\* healthy) or of handleServiceUnreachable (axios threw). The answer of the
\* service does not depend on the store, so it is drawn when the findOne
\* is served.
monitorService(c, r) ==
    /\ cycles[c].pc = "probe"
    /\ IF r.kind = "response" /\ isHealthy(r)
         THEN SetCycle(c, NextService(cycles[c]))
         ELSE LET existingIncident ==
                      FindOpenIncident(Head(cycles[c].svcs))
              IN  SetCycle(c, [cycles[c] EXCEPT
                      !.handler = IF r.kind = "error" THEN "unreachable"
                                                      ELSE "unhealthy",
                      !.resp = r,
                      !.existing = existingIncident,
                      !.pc = IF existingIncident # NoIncident
                               THEN "hLog" ELSE "hCreate"])
    /\ UNCHANGED analysisVars
    /\ UNCHANGED envVars
    /\ UNCHANGED << approval, mcp, server >>
    /\ UNCHANGED << monitorVars, launched, storeVars, now, patch, evt >>

monitorExternalServices(c) == \E r \in ProbeResponses : monitorService(c, r)

HandlerMessage(h) ==
    IF h = "unhealthy" THEN "health_check_failed" ELSE "service_unreachable"

\* existing incident: Log.create of an error-level log
handleExistingLog(c) ==
    /\ cycles[c].pc = "hLog"
    /\ TotalLogs < MaxLogs
    /\ logs' = LogCreate(logs, cycles[c].existing,
                         NewLog(cycles[c].existing, "error",
                                HandlerMessage(cycles[c].handler)))
    /\ SetCycle(c, [cycles[c] EXCEPT !.pc = "hUpd"])
    /\ UNCHANGED analysisVars
    /\ UNCHANGED envVars
    /\ UNCHANGED << approval, mcp, server >>
    /\ UNCHANGED << monitorVars, launched, incidents, resWrites, now,
                    patch, evt >>

\* Variant: the update also moves the incident to status closed.
BumpAndClose(d) ==
    [d EXCEPT !.logCount = @ + 1, !.errorCount = @ + 1, !.status = "closed",
              !.timeline = Append(@, TimelineEvent("incident_closed",
                                                   "closed", "system"))]

\* Variant: the update counts the log but not the error.
BumpLogCountOnly(d) == [d EXCEPT !.logCount = @ + 1]

\* Variant: the update counts the error but not the log.
BumpErrorCountOnly(d) == [d EXCEPT !.errorCount = @ + 1]

\* existing incident: $inc of metadata.logCount and metadata.errorCount
BumpCounters(d) ==
    [d EXCEPT !.logCount = @ + 1, !.errorCount = @ + 1]

handleExistingUpdate(c) ==
    /\ cycles[c].pc = "hUpd"
    /\ incidents' = [incidents EXCEPT
                        ![cycles[c].existing] = BumpCounters(@)]
    /\ SetCycle(c, NextService(cycles[c]))
    /\ UNCHANGED analysisVars
    /\ UNCHANGED envVars
    /\ UNCHANGED << approval, mcp, server >>
    /\ UNCHANGED << monitorVars, launched, logs, resWrites, now, patch, evt >>

(* ------------------------- store operations that throw ---------------- *)
\* A store operation awaited inside a handler rejects. Thrown inside
\* handleServiceUnhealthy, the error lands in the catch of the loop body,
\* which calls handleServiceUnreachable for the same service: its findOne
\* is pending. Thrown inside handleServiceUnreachable, it leaves the loop
\* for the catch of monitorExternalServices: the health check is over and
\* the services still listed were not probed.
handlerStoreFails(c) ==
    /\ cycles[c].pc \in {"hFind", "hLog", "hUpd", "hCreate", "hNewLog"}
    /\ faults < MaxFaults
    /\ faults' = faults + 1
    /\ IF cycles[c].handler = "unhealthy"
         THEN SetCycle(c, [cycles[c] EXCEPT !.pc = "hFind",
                                            !.handler = "unreachable",
                                            !.existing = NoIncident])
         ELSE SetCycle(c, [cycles[c] EXCEPT !.pc = "done"])
    /\ UNCHANGED analysisVars
    /\ UNCHANGED << monitorVars, launched, storeVars, now, patch, evt,
                    services, approval, mcp,
                    server >>

\* handleServiceUnreachable called from the catch of the loop body:
\* Incident.findOne answers.
handleUnreachableFind(c) ==
    /\ cycles[c].pc = "hFind"
    /\ LET existingIncident == FindOpenIncident(Head(cycles[c].svcs))
       IN  SetCycle(c, [cycles[c] EXCEPT
               !.existing = existingIncident,
               !.pc = IF existingIncident # NoIncident
                        THEN "hLog" ELSE "hCreate"])
    /\ UNCHANGED analysisVars
    /\ UNCHANGED envVars
    /\ UNCHANGED << approval, mcp, server >>
    /\ UNCHANGED << monitorVars, launched, storeVars, now, patch, evt >>

\* Variant: the rejection escapes and takes the recurring timer with it.
findOpenFailsEscapes(c) ==
    /\ cycles[c].pc = "findOpen"
    /\ faults < MaxFaults
    /\ faults' = faults + 1
    /\ SetCycle(c, [cycles[c] EXCEPT !.pc = "done"])
    /\ isRunning' = FALSE
    /\ timers' = {}
    /\ intervalId' = NoHandle
    /\ UNCHANGED analysisVars
    /\ UNCHANGED << startCalls, stopCalls, launched, storeVars, now, patch,
                    evt, services, approval, mcp,
                    server >>

\* Incident.find of performHealthCheck rejects: the catch of
\* performHealthCheck logs it and the health check is over.
findOpenFails(c) ==
    /\ cycles[c].pc = "findOpen"
    /\ faults < MaxFaults
    /\ faults' = faults + 1
    /\ SetCycle(c, [cycles[c] EXCEPT !.pc = "done"])
    /\ UNCHANGED analysisVars
    /\ UNCHANGED << monitorVars, launched, storeVars, now, patch, evt,
                    services, approval, mcp,
                    server >>

\* Log.find of checkIncidentHealth rejects: its own catch logs it and the
\* loop over the incidents goes on.
checkLogsFails(c) ==
    /\ cycles[c].pc = "chkLogs"
    /\ faults < MaxFaults
    /\ faults' = faults + 1
    /\ SetCycle(c, NextIncident(cycles[c]))
    /\ UNCHANGED analysisVars
    /\ UNCHANGED << monitorVars, launched, storeVars, now, patch, evt,
                    services, approval, mcp,
                    server >>

determineSeverity(healthData, statusCode) ==
    IF statusCode >= 500 THEN "high"
    ELSE IF healthData.responseTime > 2000 THEN "high"
    ELSE "medium"

determineCategory(healthData) ==
    IF healthData.heapUsed > 500 THEN "performance"
    ELSE IF healthData.responseTime > 2000 THEN "performance"
    ELSE IF "database" \in healthData.activeFailureModes THEN "database"
    ELSE IF "auth" \in healthData.activeFailureModes THEN "authentication"
    ELSE IF "network" \in healthData.activeFailureModes THEN "network"
    ELSE "performance"

\* Variant: the handlers create the incident as investigating.
HandlerIncidentInvestigating(h, svc, r) ==
    IF h = "unhealthy"
      THEN NewIncident(svc, "Health Check Failed",
                       determineSeverity(r, r.http), determineCategory(r),
                       "investigating")
      ELSE NewIncident(svc, "Service Unreachable", "high", "network",
                       "investigating")

\* The incidentData of the two handlers.
HandlerIncident(h, svc, r) ==
    IF h = "unhealthy"
      THEN NewIncident(svc, "Health Check Failed",
                       determineSeverity(r, r.http), determineCategory(r),
                       "open")
      ELSE NewIncident(svc, "Service Unreachable", "high", "network", "open")

\* no existing incident: Incident.create
handleCreateIncident(c) ==
    /\ cycles[c].pc = "hCreate"
    /\ Len(incidents) < MaxIncidents
    /\ incidents' = Append(incidents,
                       HandlerIncident(cycles[c].handler,
                                       Head(cycles[c].svcs), cycles[c].resp))
    /\ resWrites' = Append(resWrites, 0)
    /\ logs' = Append(logs, << >>)
    /\ SetCycle(c, [cycles[c] EXCEPT !.pc = "hNewLog",
                                     !.existing = Len(incidents) + 1])
    /\ UNCHANGED analysisVars
    /\ UNCHANGED envVars
    /\ UNCHANGED << approval, mcp, server >>
    /\ UNCHANGED << monitorVars, launched, now, patch, evt >>

\* no existing incident: Log.create for the incident just created
handleCreateLog(c) ==
    /\ cycles[c].pc = "hNewLog"
    /\ TotalLogs < MaxLogs
    /\ logs' = LogCreate(logs, cycles[c].existing,
                         NewLog(cycles[c].existing, "error",
                                HandlerMessage(cycles[c].handler)))
    /\ SetCycle(c, NextService(cycles[c]))
    /\ UNCHANGED analysisVars
    /\ UNCHANGED envVars
    /\ UNCHANGED << approval, mcp, server >>
    /\ UNCHANGED << monitorVars, launched, incidents, resWrites, now,
                    patch, evt >>

(* --------------------- PATCH /api/incidents/:id/status ----------------- *)
\* validation and Incident.findById; an unknown id or a status outside
\* ValidStatuses answers 404 / 400 and changes nothing
\* The statuses requested of the route; "none" is a body without status.
RequestedStatuses == ValidStatuses \cup {"none", "auto-resolved", "closed"}

\* An :id that is not the text of an ObjectId.
MalformedId == -2

\* The ids requested of the route.
RequestedIds == 0..MaxIncidents \cup {MalformedId}

\* The early returns of the route, in their order: 400 for a missing and
\* for an invalid status, then findById, which throws a CastError for an
\* id it cannot cast (the catch block answers 500) and answers null for an
\* id that names no incident (404).
Refusal(id, status) ==
    IF status = "none" THEN "Status is required"
    ELSE IF status \notin ValidStatuses THEN "Invalid status"
    ELSE IF id = MalformedId THEN "Failed to update incident status"
    ELSE IF id \notin IncidentIds THEN "Incident not found"
    ELSE "none"

\* A request that one of the early returns answers.
patchRefused(id, status) ==
    /\ patch.pc = "idle"
    /\ Refusal(id, status) # "none"
    /\ patch' = [IdlePatch EXCEPT !.id = id, !.status = status,
                                  !.outcome = Refusal(id, status)]
    /\ UNCHANGED analysisVars
    /\ UNCHANGED envVars
    /\ UNCHANGED << approval, mcp, server >>
    /\ UNCHANGED << monitorVars, cycles, launched, storeVars, now, evt >>

\* A request that passes them, up to the answer of findById.
patchBegin(id, status) ==
    /\ patch.pc = "idle"
    /\ Refusal(id, status) = "none"
    /\ patch' = [ pc |-> "update", id |-> id, status |-> status,
                  oldStatus |-> incidents[id].status,
                  createdAt |-> incidents[id].createdAt,
                  outcome |-> "none" ]
    /\ UNCHANGED analysisVars
    /\ UNCHANGED envVars
    /\ UNCHANGED << approval, mcp, server >>
    /\ UNCHANGED << monitorVars, cycles, launched, storeVars, now, evt >>

\* The updateData of the route, applied to stored incident d.
StatusUpdated(d, p) ==
    LET withStatus ==
            [d EXCEPT !.status = p.status,
                      !.timeline = Append(@, TimelineEvent("status_change",
                                                  p.status, "engineer"))]
    IN  IF p.status = "resolved" /\ p.oldStatus # "resolved"
          THEN [withStatus EXCEPT !.resolvedAt = now,
                                  !.resolutionTime = now - p.createdAt,
                                  !.resolvedBy = "engineer"]
          ELSE withStatus

WritesResolution(p) == p.status = "resolved" /\ p.oldStatus # "resolved"

\* Incident.findByIdAndUpdate
patchUpdate ==
    /\ patch.pc = "update"
    /\ incidents' = [incidents EXCEPT ![patch.id] = StatusUpdated(@, patch)]
    /\ resWrites' = [resWrites EXCEPT ![patch.id] =
                        IF WritesResolution(patch) THEN @ + 1 ELSE @]
    /\ patch' = [patch EXCEPT !.pc = "log"]
    /\ UNCHANGED analysisVars
    /\ UNCHANGED envVars
    /\ UNCHANGED << approval, mcp, server >>
    /\ UNCHANGED << monitorVars, cycles, launched, logs, now, evt >>

\* Log.create
patchLog ==
    /\ patch.pc = "log"
    /\ TotalLogs < MaxLogs
    /\ logs' = LogCreate(logs, patch.id,
                         NewLog(patch.id, "info", "status_updated"))
    /\ patch' = IdlePatch
    /\ UNCHANGED analysisVars
    /\ UNCHANGED envVars
    /\ UNCHANGED << approval, mcp, server >>
    /\ UNCHANGED << monitorVars, cycles, launched, incidents, resWrites,
                    now, evt >>

(* ----------------------- POST /:id/approve-action ---------------------- *)
ActionIndexes == {0, 1}     \* the actionIndex values requested here

\* incident.aiAnalysis?.suggestedActions of a document that findById has
\* returned. incidentSchema declares no aiAnalysis path: the update of
\* ai/agent.js that names it is stripped of it, no other code writes it,
\* and a path outside the schema is not a property of the document. The
\* read yields undefined, which is kept here as the empty list.
StoredSuggestedActions(d) == << >>

\* The request up to the answers of findById and of the index check.
approveAction(id, actionIndex) ==
    /\ approval.pc \in {"idle", "done"}
    /\ approval' =
          IF id \notin IncidentIds
            THEN [IdleApproval EXCEPT !.pc = "done", !.id = id,
                                      !.actionIndex = actionIndex,
                                      !.outcome = "Incident not found"]
          ELSE IF actionIndex + 1 \notin
                     1..Len(StoredSuggestedActions(incidents[id]))
            THEN [IdleApproval EXCEPT !.pc = "done", !.id = id,
                                      !.actionIndex = actionIndex,
                                      !.outcome = "Invalid action index"]
          ELSE [IdleApproval EXCEPT !.pc = "update", !.id = id,
                                    !.actionIndex = actionIndex,
                                    !.status = incidents[id].status]
    /\ UNCHANGED analysisVars
    /\ UNCHANGED envVars
    /\ UNCHANGED << mcp, server >>
    /\ UNCHANGED << monitorVars, cycles, launched, storeVars, now, patch,
                    evt >>

\* Incident.findByIdAndUpdate: the approval is pushed on the timeline.
approveUpdate ==
    /\ approval.pc = "update"
    /\ incidents' = [incidents EXCEPT ![approval.id].timeline =
                        Append(@, TimelineEvent("ai_action_approved",
                                                approval.status,
                                                "engineer"))]
    /\ approval' = [approval EXCEPT !.pc = "log"]
    /\ UNCHANGED analysisVars
    /\ UNCHANGED envVars
    /\ UNCHANGED << mcp, server >>
    /\ UNCHANGED << monitorVars, cycles, launched, logs, resWrites, now,
                    patch, evt >>

\* Log.create and the response.
approveLog ==
    /\ approval.pc = "log"
    /\ TotalLogs < MaxLogs
    /\ logs' = LogCreate(logs, approval.id,
                         NewLog(approval.id, "info", "action_approved"))
    /\ approval' = [approval EXCEPT !.pc = "done",
                                    !.outcome = "Action approved"]
    /\ UNCHANGED analysisVars
    /\ UNCHANGED envVars
    /\ UNCHANGED << mcp, server >>
    /\ UNCHANGED << monitorVars, cycles, launched, incidents, resWrites,
                    now, patch, evt >>

(* ------------- POST /api/mcp/jsonrpc tools/call, agent actions --------- *)
\* ALLOWED_TOOLS of middleware/toolGuard.js; the keys of ai/tools.js are
\* the same two names.
ALLOWED_TOOLS == {"getIncidentById", "getLogsByIncident"}

\* The keys of MCP_TOOLS.
TOOL_DEFINITIONS == {"getIncidentById", "getLogsByIncident", "analyzeIncident"}

\* Names inherited from Object.prototype by the plain objects MCP_TOOLS and
\* tools: MCP_TOOLS[name] and tools[action] are truthy for them.
InheritedNames == {"constructor"}

\* The names requested: the tools, a writing tool that is not registered,
\* an inherited name, and "none" for a request without a name.
RequestedNames ==
    TOOL_DEFINITIONS \cup InheritedNames \cup {"updateIncidentStatus", "none"}

\* tools.getIncidentById and tools.getLogsByIncident: one store read each.
\* A missing incident makes getIncidentById throw; Log.find of an unknown
\* incident yields the empty list.
ToolOutcome(name, id) ==
    IF name = "getIncidentById" /\ id \notin IncidentIds
      THEN "Failed to get incident" ELSE "result"

ToolResult(name, id) ==
    IF id \notin IncidentIds THEN << >>
    ELSE IF name = "getIncidentById" THEN << incidents[id] >>
    ELSE logs[id]

\* tools/call for every name but analyzeIncident, whose implementation is
\* the call analyzeIncidentReadOnly(args.incidentId), taken as the steps of
\* analyzeIncidentReadOnly: the name check, the registry lookup and the
\* call of tool.implementation in one step, as the tools make one store
\* read. An inherited name passes the lookup and fails at the call of the
\* undefined implementation, which the catch block answers.
toolsCall(name, id) ==
    /\ name # "analyzeIncident"
    /\ mcp' =
          IF name = "none"
            THEN [IdleMcp EXCEPT !.pc = "done", !.via = "mcp",
                     !.outcome = "Tool name must be a non-empty string"]
          ELSE IF name \notin TOOL_DEFINITIONS \cup InheritedNames
            THEN [IdleMcp EXCEPT !.pc = "done", !.via = "mcp",
                     !.name = name, !.id = id, !.outcome = "Unknown tool"]
          ELSE IF name \in InheritedNames
            THEN [IdleMcp EXCEPT !.pc = "done", !.via = "mcp",
                     !.name = name, !.id = id,
                     !.outcome = "Internal MCP server error"]
          ELSE [IdleMcp EXCEPT !.pc = "done", !.via = "mcp",
                     !.name = name, !.id = id, !.ran = name,
                     !.outcome = ToolOutcome(name, id),
                     !.result = ToolResult(name, id)]
    /\ UNCHANGED analysisVars
    /\ UNCHANGED envVars
    /\ UNCHANGED << approval, server >>
    /\ UNCHANGED << monitorVars, cycles, launched, storeVars, now, patch,
                    evt >>

\* toolGuard: the action of an agent request is checked against
\* ALLOWED_TOOLS before next() is called.
toolGuard(action, id) ==
    /\ mcp.pc # "guarded"
    /\ mcp' =
          IF action = "none"
            THEN [IdleMcp EXCEPT !.pc = "done", !.via = "agent",
                                 !.outcome = "Action is required"]
          ELSE IF action \notin ALLOWED_TOOLS
            THEN [IdleMcp EXCEPT !.pc = "done", !.via = "agent",
                     !.name = action, !.id = id,
                     !.outcome = "Action not allowed for AI agent"]
          ELSE [IdleMcp EXCEPT !.pc = "guarded", !.via = "agent",
                               !.name = action, !.id = id]
    /\ UNCHANGED analysisVars
    /\ UNCHANGED envVars
    /\ UNCHANGED << approval, server >>
    /\ UNCHANGED << monitorVars, cycles, launched, storeVars, now, patch,
                    evt >>

\* runAgent({ action, payload }) behind the guard: tools[action](payload).
runAgent ==
    /\ mcp.pc = "guarded"
    /\ mcp' = [mcp EXCEPT !.pc = "done", !.ran = mcp.name,
                          !.outcome = ToolOutcome(mcp.name, mcp.id),
                          !.result = ToolResult(mcp.name, mcp.id)]
    /\ UNCHANGED analysisVars
    /\ UNCHANGED envVars
    /\ UNCHANGED << approval, server >>
    /\ UNCHANGED << monitorVars, cycles, launched, storeVars, now, patch,
                    evt >>

(* -------------------------- POST /api/system/events -------------------- *)
EventTypes == {"CPU_SPIKE", "AUTH_FAILURE"}   \* the types requested here

EventIncident(type) ==
    IF type = "CPU_SPIKE"
      THEN NewIncident(NoIncident, "High CPU usage detected", "high",
                       "performance", "investigating")
    ELSE NewIncident(NoIncident, "Authentication failures detected",
                     "medium", "authentication", "open")

\* Incident.create
eventCreate(type) ==
    /\ evt.pc = "idle"
    /\ Len(incidents) < MaxIncidents
    /\ incidents' = Append(incidents, EventIncident(type))
    /\ resWrites' = Append(resWrites, 0)
    /\ logs' = Append(logs, << >>)
    /\ evt' = [ pc |-> "log", id |-> Len(incidents) + 1, type |-> type ]
    /\ UNCHANGED analysisVars
    /\ UNCHANGED envVars
    /\ UNCHANGED << approval, mcp, server >>
    /\ UNCHANGED << monitorVars, cycles, launched, now, patch >>

\* Log.create
eventLog ==
    /\ evt.pc = "log"
    /\ TotalLogs < MaxLogs
    /\ logs' = LogCreate(logs, evt.id, NewLog(evt.id, "error", evt.type))
    /\ evt' = IdleEvt
    /\ UNCHANGED analysisVars
    /\ UNCHANGED envVars
    /\ UNCHANGED << approval, mcp, server >>
    /\ UNCHANGED << monitorVars, cycles, launched, incidents, resWrites,
                    now, patch >>

(* ------------------- NVIDIA NIM client: the three cascades ------------- *)
\* A text is held as the set of the search words of the rule-based
\* fallbacks that occur in it, lower-cased, as substrings; includes(w) is
\* membership and concatenation is union.
TitleWords(title) ==
    IF title = "High CPU usage detected" THEN {"cpu"}
    ELSE IF title = "Authentication failures detected"
      THEN {"failure", "error", "auth", "authentication"}
    ELSE IF title = "Service Unreachable" THEN {"http", "timeout"}
    ELSE {}

MessageWords(message) ==
    IF message = "CPU_SPIKE" THEN {"cpu"}
    ELSE IF message = "AUTH_FAILURE" THEN {"auth", "authentication"}
    ELSE IF message = "service_unreachable" THEN {"timeout"}
    ELSE IF message = "auto_resolved" THEN {"error"}
    ELSE {}

RECURSIVE LogWords(_)
LogWords(lg) ==
    IF lg = << >> THEN {} ELSE MessageWords(Head(lg).message)
                               \cup LogWords(Tail(lg))

\* Length of the template of analyzeIncidentReadOnly's text once trimmed,
\* with an empty title, description and log list: ".\n        ."
TemplateLength == 11

Null == "null"
PRIMARY_MODEL == "meta/llama-3.1-8b-instruct"
SECONDARY_MODEL == "mistralai/mistral-7b-instruct"

\* What a backend can answer to axios.post: a completion with a content,
\* a body without choices, an HTTP error status, or no answer in time.
\* A content is held by what the parsers look at: the classification words
\* it includes, whether it carries "ROOT_CAUSE: <body>", its body, its length.
Contents ==
    { [words |-> {"high"}, prefixed |-> FALSE, body |-> "high", length |-> 4],
      [words |-> {"network"}, prefixed |-> FALSE, body |-> "network",
       length |-> 7],
      [words |-> {}, prefixed |-> TRUE, body |-> "disk full",
       length |-> 21],
      [words |-> {"database", "low"}, prefixed |-> FALSE,
       body |-> "the database volume is low on space", length |-> 35],
      [words |-> {}, prefixed |-> FALSE, body |-> "", length |-> 0] }

NoContent == [words |-> {}, prefixed |-> FALSE, body |-> "", length |-> 0]

Replies ==
    { [status |-> 200, choices |-> TRUE, content |-> c] : c \in Contents }
    \cup { [status |-> st, choices |-> FALSE, content |-> NoContent] :
              st \in {200, 401, 403, 500, 0} }

\* Variant: every error status disables the API.
AuthFailureOrServerError(reply) == reply.status \in {401, 403, 500}

AuthFailure(reply) == reply.status = 401 \/ reply.status = 403

\* Variant: whatever the model answered is taken as the severity.
callNIMForSeverityUnparsed(reply) ==
    IF reply.status # 200 \/ ~reply.choices THEN Null ELSE reply.content.body

\* callNIMForSeverity: the value returned for a reply (null on any failure)
callNIMForSeverity(reply) ==
    IF reply.status # 200 \/ ~reply.choices THEN Null
    ELSE IF "high" \in reply.content.words THEN "high"
    ELSE IF "medium" \in reply.content.words THEN "medium"
    ELSE IF "low" \in reply.content.words THEN "low"
    ELSE Null

validCategories ==
    << "database", "network", "authentication", "deployment", "performance" >>

callNIMForCategory(reply) ==
    IF reply.status # 200 \/ ~reply.choices THEN Null
    ELSE LET hits == { k \in 1..Len(validCategories) :
                          validCategories[k] \in reply.content.words }
         IN  IF hits = {} THEN Null ELSE validCategories[Min(hits)]

parseRootCauseResponse(content) ==
    IF content.prefixed /\ content.body # "" THEN content.body
    ELSE IF content.length > 20 THEN content.body
    ELSE Null

\* callNIMForRootCause followed by the acceptance test of analyzeRootCause:
\* an empty content is falsy, anything else goes through the parser
callNIMForRootCause(reply) ==
    IF reply.status # 200 \/ ~reply.choices THEN Null
    ELSE IF reply.content.length = 0 THEN Null
    ELSE parseRootCauseResponse(reply.content)

callNIM(task, reply) ==
    IF task = "severity" THEN callNIMForSeverity(reply)
    ELSE IF task = "category" THEN callNIMForCategory(reply)
    ELSE callNIMForRootCause(reply)

analyzeSeverityFallback(text) ==
    IF text \cap {"critical", "down", "failure", "outage", "severe",
                  "emergency", "crash", "unavailable"} # {} THEN "high"
    ELSE IF text \cap {"error", "warning", "issue", "problem", "slow",
                       "degraded"} # {} THEN "medium"
    ELSE "low"

analyzeCategoryFallback(text) ==
    IF text \cap {"database", "db ", "sql", "query", "mongodb", "postgres",
                  "mysql", "connection pool", "transaction"} # {}
      THEN "database"
    ELSE IF text \cap {"auth", "login", "password", "credential", "token",
                       "session", "unauthorized", "forbidden", "jwt"} # {}
      THEN "authentication"
    ELSE IF text \cap {"network", "connection", "timeout", "dns", "http",
                       "tcp", "socket", "packet", "latency"} # {}
      THEN "network"
    ELSE IF text \cap {"cpu", "memory", "performance", "slow", "throughput",
                       "resource", "load", "spike"} # {}
      THEN "performance"
    ELSE IF text \cap {"deploy", "build", "ci/cd", "pipeline", "container",
                       "docker", "kubernetes", "k8s"} # {}
      THEN "deployment"
    ELSE "performance"

\* analyzeRootCauseFallback reads the log messages only
analyzeRootCauseFallback(logText, errors, warnings) ==
    IF logText \cap {"timeout", "connection"} # {}
      THEN "Network/Connection timeout"
    ELSE IF logText \cap {"database", "db", "query"} # {}
      THEN "Database performance issue"
    ELSE IF logText \cap {"cpu", "memory", "resource"} # {}
      THEN "Resource exhaustion"
    ELSE IF logText \cap {"auth", "authentication", "login"} # {}
      THEN "Authentication system failure"
    ELSE IF errors > warnings * 2 THEN "Cascading failures"
    ELSE "Unknown - Insufficient data to determine root cause"

Fallback(a) ==
    IF a.task = "severity" THEN analyzeSeverityFallback(a.text)
    ELSE IF a.task = "category" THEN analyzeCategoryFallback(a.text)
    ELSE analyzeRootCauseFallback(LogWords(a.logs),
                                  CountLevel(a.logs, "error"),
                                  CountLevel(a.logs, "warning"))

\* Variant: the gate looks at the flag only.
GateIgnoresKey == ~nimApiAvailable

\* if (!nimApiAvailable || !NIM_API_KEY): straight to the fallback
GateClosed == ~nimApiAvailable \/ ~NIM_API_KEY

\* The task's value v is settled by stage via.
Settle(a, v, via) ==
    LET b == [a EXCEPT !.via = via, !.pc = "gate"]
    IN  IF a.task = "severity" THEN [b EXCEPT !.severity = v]
        ELSE IF a.task = "category" THEN [b EXCEPT !.category = v]
        ELSE [b EXCEPT !.rootCause = v]

NextTask(task) ==
    IF task = "none" THEN "severity"
    ELSE IF task = "severity" THEN "category"
    ELSE IF task = "category" THEN "rootCause"
    ELSE "none"

(* ----------------------- analyzeIncidentReadOnly ----------------------- *)
\* The call, up to the answer of Incident.findById.
analyzeIncidentReadOnly(id) ==
    /\ analysis.pc \in {"idle", "done"}
    /\ analysis' =
          IF id = NoIncident
            THEN [IdleAnalysis EXCEPT !.pc = "done",
                                      !.outcome = "Incident ID is required"]
          ELSE IF id \notin IncidentIds
            THEN [IdleAnalysis EXCEPT !.pc = "done", !.id = id,
                                      !.outcome = "Incident not found"]
          ELSE [IdleAnalysis EXCEPT !.pc = "logs", !.id = id,
                    !.entry = "readOnly",
                    !.status = incidents[id].status,
                    !.text = TitleWords(incidents[id].title)]
    /\ UNCHANGED << nimApiAvailable, NIM_API_KEY >>
    /\ UNCHANGED envVars
    /\ UNCHANGED << approval, mcp, server >>
    /\ UNCHANGED << monitorVars, cycles, launched, storeVars, now, patch,
                    evt >>

\* exports.analyzeIncident of ai/agent.js, up to the answer of
\* Incident.findById: the handler that records its analysis. Its answers to
\* a missing id and to an unknown incident are the HTTP bodies 400 and 404.
analyzeIncident(id) ==
    /\ analysis.pc \in {"idle", "done"}
    /\ id \in IncidentIds => Len(incidents[id].timeline) < MaxTimeline
    /\ analysis' =
          IF id = NoIncident
            THEN [IdleAnalysis EXCEPT !.pc = "done", !.entry = "agent",
                                      !.outcome = "Incident ID is required"]
          ELSE IF id \notin IncidentIds
            THEN [IdleAnalysis EXCEPT !.pc = "done", !.entry = "agent",
                                      !.id = id,
                                      !.outcome = "Incident not found"]
          ELSE [IdleAnalysis EXCEPT !.pc = "logs", !.id = id,
                    !.entry = "agent",
                    !.status = incidents[id].status,
                    !.text = TitleWords(incidents[id].title)]
    /\ UNCHANGED << nimApiAvailable, NIM_API_KEY >>
    /\ UNCHANGED envVars
    /\ UNCHANGED << approval, mcp, server >>
    /\ UNCHANGED << monitorVars, cycles, launched, storeVars, now, patch,
                    evt >>

\* Log.find answers; the text is built and measured. The template alone
\* is TemplateLength characters long and every log adds at least the blank
\* that joins it, which bounds text.length from below.
analysisLogs ==
    /\ analysis.pc = "logs"
    /\ LET lg == LogsOf(logs, analysis.id)
       IN  analysis' =
              IF TemplateLength + Len(lg) < 10
                THEN [analysis EXCEPT
                         !.pc = "done",
                         !.outcome = "Insufficient data for analysis"]
                ELSE [analysis EXCEPT
                         !.pc = "gate",
                         !.text = @ \cup LogWords(lg),
                         !.logs = lg]
    /\ UNCHANGED << nimApiAvailable, NIM_API_KEY >>
    /\ UNCHANGED envVars
    /\ UNCHANGED << approval, mcp, server >>
    /\ UNCHANGED << monitorVars, cycles, launched, storeVars, now, patch,
                    evt >>

\* analyzeSeverity / analyzeCategory / analyzeRootCause is entered: with the
\* gate closed the fallback answers, otherwise the primary model is called.
\* After the third task findRelatedIncidents is pending.
analysisGate ==
    /\ analysis.pc = "gate"
    /\ LET task == NextTask(analysis.task)
           a == [analysis EXCEPT !.task = task, !.trail = << >>,
                                 !.via = "none"]
       IN  analysis' =
              IF task = "none" THEN [analysis EXCEPT !.pc = "related"]
              ELSE IF GateClosed THEN Settle(a, Fallback(a), "fallback")
              ELSE [a EXCEPT !.pc = "primary"]
    /\ UNCHANGED << nimApiAvailable, NIM_API_KEY >>
    /\ UNCHANGED envVars
    /\ UNCHANGED << approval, mcp, server >>
    /\ UNCHANGED << monitorVars, cycles, launched, storeVars, now, patch,
                    evt >>

\* The model called answers (or the call fails): callNIMFor... returns, and
\* the cascade goes on to the secondary model or to the fallback.
\* Variant: a parsed answer of the model marks the API available again.
AvailableAfterRestoring(available, reply) ==
    IF AuthFailure(reply) THEN FALSE
    ELSE IF reply.status = 200 /\ reply.choices THEN TRUE
    ELSE available

\* nimApiAvailable after a call: the catch block of callNIMFor... clears it
\* on 401 and 403, and no other outcome assigns it.
AvailableAfter(available, reply) == available /\ ~AuthFailure(reply)

nimReply(reply) ==
    /\ analysis.pc \in {"primary", "secondary"}
    /\ LET v == callNIM(analysis.task, reply)
           model == IF analysis.pc = "primary" THEN PRIMARY_MODEL
                                               ELSE SECONDARY_MODEL
           a == [analysis EXCEPT !.trail =
                    Append(@, [model |-> model, accepted |-> v # Null,
                               status |-> reply.status])]
       IN  /\ nimApiAvailable' = AvailableAfter(nimApiAvailable, reply)
           /\ analysis' =
                 IF v # Null THEN Settle(a, v, analysis.pc)
                 ELSE IF analysis.pc = "primary"
                   THEN [a EXCEPT !.pc = "secondary"]
                 ELSE Settle(a, Fallback(a), "fallback")
    /\ UNCHANGED NIM_API_KEY
    /\ UNCHANGED envVars
    /\ UNCHANGED << approval, mcp, server >>
    /\ UNCHANGED << monitorVars, cycles, launched, storeVars, now, patch,
                    evt >>

\* Error logs and logs among lg younger than w minutes at time t.
ErrorsWithin(lg, t, w) ==
    CountLevel(SelectSeq(lg, LAMBDA l : t - l.createdAt < w), "error")
LogsWithin(lg, t, w) == Len(SelectSeq(lg, LAMBDA l : t - l.createdAt < w))

\* Variant: the rates are compared without strictness.
analyzeTrendLax(lg, t) ==
    LET e5 == ErrorsWithin(lg, t, 5)
        e15 == ErrorsWithin(lg, t, 15)
        e30 == ErrorsWithin(lg, t, ThirtyMin)
        n5 == Max({LogsWithin(lg, t, 5), 1})
        n15 == Max({LogsWithin(lg, t, 15), 1})
        n30 == Max({LogsWithin(lg, t, ThirtyMin), 1})
        isDegrading == /\ e5 * n15 >= e15 * n5
                       /\ e15 * n30 >= e30 * n15
    IN  IF Len(lg) < 3 THEN NoTrend
        ELSE [isDegrading |-> isDegrading,
              degradationRate |->
                  IF isDegrading THEN << e5 * n30 - e30 * n5, n5 * n30 >>
                                 ELSE << 0, 1 >>]

\* analyzeTrend: errorRate5min > errorRate15min > errorRate30min, the
\* quotients compared by cross-multiplication, and degradationRate =
\* errorRate5min - errorRate30min as one fraction.
analyzeTrend(lg, t) ==
    LET e5 == ErrorsWithin(lg, t, 5)
        e15 == ErrorsWithin(lg, t, 15)
        e30 == ErrorsWithin(lg, t, ThirtyMin)
        n5 == Max({LogsWithin(lg, t, 5), 1})
        n15 == Max({LogsWithin(lg, t, 15), 1})
        n30 == Max({LogsWithin(lg, t, ThirtyMin), 1})
        isDegrading == /\ e5 * n15 > e15 * n5
                       /\ e15 * n30 > e30 * n15
    IN  IF Len(lg) < 3 THEN NoTrend
        ELSE [isDegrading |-> isDegrading,
              degradationRate |->
                  IF isDegrading THEN << e5 * n30 - e30 * n5, n5 * n30 >>
                                 ELSE << 0, 1 >>]

\* Variant: a stable trend alone makes the incident ready for resolution.
deriveStatusSuggestionLenient(errorCount, severity, trendAnalysis) ==
    IF severity = "high" \/ errorCount > 5 \/ trendAnalysis.isDegrading
      THEN "needs_investigation"
    ELSE IF severity = "medium" /\ errorCount > 0
      THEN "likely_root_cause_identified"
    ELSE IF ~trendAnalysis.isDegrading
      THEN "ready_for_resolution"
    ELSE "needs_investigation"

deriveStatusSuggestion(errorCount, severity, trendAnalysis) ==
    IF severity = "high" \/ errorCount > 5 \/ trendAnalysis.isDegrading
      THEN "needs_investigation"
    ELSE IF severity = "medium" /\ errorCount > 0
      THEN "likely_root_cause_identified"
    ELSE IF ~trendAnalysis.isDegrading /\ errorCount = 0
      THEN "ready_for_resolution"
    ELSE "needs_investigation"

\* The phrases that generateSuggestedActions searches with includes() and
\* that occur, in that spelling, in the root cause given.
RootCausePhrases(rootCause) ==
    IF rootCause = "Network/Connection timeout" THEN {"timeout"}
    ELSE IF rootCause = "Database performance issue"
      THEN {"Database", "connection"}
    ELSE IF rootCause = "Resource exhaustion"
      THEN {"Resource exhaustion", "CPU", "memory"}
    ELSE {}

\* generateSuggestedActions of the service, as the list of the action
\* names, for the incident severity and status read by findById, the logs
\* lg (oldest first) and the time t.
generateSuggestedActions(severity, status, lg, rootCause, t) ==
    LET phrases == RootCausePhrases(rootCause)
    IN  (IF severity = "high" \/ CountLevel(lg, "error") > 5
           THEN << "investigate_immediately" >> ELSE << >>)
        \o (IF phrases \cap {"timeout", "connection"} # {}
              THEN << "restart_service" >> ELSE << >>)
        \o (IF phrases \cap {"Resource exhaustion", "CPU", "memory"} # {}
              THEN << "scale_resources" >> ELSE << >>)
        \o (IF "Database" \in phrases
              THEN << "check_database" >> ELSE << >>)
        \o (IF /\ status = "investigating"
               /\ lg # << >>
               /\ CountLevel(lg, "error") = 0
               /\ CountLevel(lg, "warning") < 2
               /\ t - lg[Len(lg)].createdAt > ThirtyMin
              THEN << "consider_resolving" >> ELSE << >>)

\* findRelatedIncidents has answered; the analysis object is returned.
analysisReturn ==
    /\ analysis.pc = "related"
    /\ analysis.entry = "readOnly"
    /\ analysis' = [analysis EXCEPT
          !.pc = "done",
          !.suggestedActions =
              generateSuggestedActions(incidents[analysis.id].severity,
                  analysis.status, analysis.logs, analysis.rootCause, now),
          !.trendAnalysis = analyzeTrend(analysis.logs, now),
          !.statusSuggestion =
              deriveStatusSuggestion(CountLevel(analysis.logs, "error"),
                  analysis.severity, analyzeTrend(analysis.logs, now)),
          !.outcome = "result"]
    /\ UNCHANGED << nimApiAvailable, NIM_API_KEY >>
    /\ UNCHANGED envVars
    /\ UNCHANGED << approval, mcp, server >>
    /\ UNCHANGED << monitorVars, cycles, launched, storeVars, now, patch,
                    evt >>

\* A variant of the recorded document that also applies the recommended
\* status of the primary suggestion.
AnalysisRecordedWithStatus(d, a) ==
    [d EXCEPT !.timeline = Append(@,
                  TimelineEvent("ai_analysis_completed", a.status, "ai")),
              !.status = IF d.severity = "high" THEN "investigating"
                                                ELSE "resolved"]

\* The document after agent.js's Incident.findByIdAndUpdate(incidentId,
\* { aiAnalysis, $push: { timeline }, "metadata.lastUpdatedAt" }): the
\* schema has no aiAnalysis path, so of the fields kept here the update
\* changes the timeline alone. The event carries the status that findById
\* read.
AnalysisRecorded(d, a) ==
    [d EXCEPT !.timeline = Append(@,
                  TimelineEvent("ai_analysis_completed", a.status, "ai"))]

\* agent.js: findRelatedIncidents has answered, the analysis is recorded on
\* the incident and the response is sent.
analysisRecord ==
    /\ analysis.pc = "related"
    /\ analysis.entry = "agent"
    /\ incidents' = [incidents EXCEPT ![analysis.id] =
                        AnalysisRecorded(@, analysis)]
    /\ analysis' = [analysis EXCEPT !.pc = "done", !.outcome = "result"]
    /\ UNCHANGED << nimApiAvailable, NIM_API_KEY >>
    /\ UNCHANGED envVars
    /\ UNCHANGED << approval, mcp, server >>
    /\ UNCHANGED << monitorVars, cycles, launched, logs, resWrites, now,
                    patch, evt >>

(* -------------------------------- clock -------------------------------- *)
Tick ==
    /\ now + TickMinutes <= MaxTime
    /\ now' = now + TickMinutes
    /\ UNCHANGED analysisVars
    /\ UNCHANGED envVars
    /\ UNCHANGED << approval, mcp, server >>
    /\ UNCHANGED << monitorVars, cycles, launched, storeVars, patch, evt >>

(* ---------------------------- specifications --------------------------- *)
\* The state once server start-up has called monitoringService.start().
InitStarted ==
    /\ isRunning = TRUE
    /\ intervalId = 1
    /\ timers = {1}
    /\ cycles = [c \in CycleIds |->
                    IF c = 1 THEN [IdleCycle EXCEPT !.pc = "findOpen",
                                                   !.src = "immediate"]
                             ELSE IdleCycle]
    /\ launched = 1
    /\ incidents = << >>
    /\ logs = << >>
    /\ now = 0
    /\ patch = IdlePatch
    /\ evt = IdleEvt
    /\ resWrites = << >>
    /\ startCalls = 1
    /\ stopCalls = 0
    /\ nimApiAvailable = TRUE
    /\ NIM_API_KEY = TRUE
    /\ analysis = IdleAnalysis
    /\ services = Services
    /\ faults = 0
    /\ approval = IdleApproval
    /\ mcp = IdleMcp
    /\ server = "scheduled"

\* The steps of a health check that probes and records failed services.
CycleNext ==
    \/ \E c \in CycleIds : performHealthCheck(c)
    \/ \E c \in CycleIds : checkIncidentHealth(c)
    \/ \E c \in CycleIds : monitorExternalServices(c)
    \/ \E c \in CycleIds : handleExistingLog(c)
    \/ \E c \in CycleIds : handleExistingUpdate(c)
    \/ \E c \in CycleIds : handleCreateIncident(c)
    \/ \E c \in CycleIds : handleCreateLog(c)

\* The engineer's status changes.
PatchNext ==
    \/ \E id \in 1..MaxIncidents, s \in ValidStatuses : patchBegin(id, s)
    \/ patchUpdate
    \/ patchLog

\* Monitoring with engineer status changes: the running monitor, its timer,
\* and PATCH /:id/status requests.
Next ==
    \/ \E h \in 1..MaxTimers : timerTick(h)
    \/ CycleNext
    \/ PatchNext

Spec == InitStarted /\ [][Next]_vars

\* The scheduler: start / stop / timer with the health checks they launch.
NextSched ==
    \/ start
    \/ stop
    \/ \E h \in 1..MaxTimers : timerTick(h)
    \/ CycleNext

SpecSched == Init /\ [][NextSched]_vars

(* ------------------- server startup and shutdown signals --------------- *)
\* The callback of app.listen runs up to its await of connectDB().
listenCallback ==
    /\ server = "listening"
    /\ server' = "connecting"
    /\ UNCHANGED analysisVars
    /\ UNCHANGED envVars
    /\ UNCHANGED << approval, mcp >>
    /\ UNCHANGED << monitorVars, cycles, launched, storeVars, now, patch,
                    evt >>

\* connectDB() has answered: with a connection the start of the monitor is
\* scheduled by setTimeout, without one it is not.
connectDB(dbConnected) ==
    /\ server = "connecting"
    /\ server' = IF dbConnected THEN "scheduled" ELSE "noMonitor"
    /\ UNCHANGED analysisVars
    /\ UNCHANGED envVars
    /\ UNCHANGED << approval, mcp >>
    /\ UNCHANGED << monitorVars, cycles, launched, storeVars, now, patch,
                    evt >>

\* The setTimeout callback fires: monitoringService.start(). The timeout is
\* the only caller of start() and is never cleared, so it is pending while
\* start() has not been called.
delayedStart ==
    /\ server = "scheduled"
    /\ startCalls = 0
    /\ start

\* The SIGTERM or SIGINT handler: monitoringService.stop(), then
\* server.close(callback) is called and the handler returns.
shutdownSignal ==
    /\ server # "exited"
    /\ stop

\* The callback of server.close: process.exit(0). The handlers are the only
\* callers of stop(), so a close is under way once stop() has been called.
serverClosed ==
    /\ server # "exited"
    /\ stopCalls > 0
    /\ server' = "exited"
    /\ UNCHANGED analysisVars
    /\ UNCHANGED envVars
    /\ UNCHANGED << approval, mcp >>
    /\ UNCHANGED << monitorVars, cycles, launched, storeVars, now, patch,
                    evt >>

\* The process from app.listen on; nothing runs once it has exited.
InitBoot ==
    /\ isRunning = FALSE
    /\ intervalId = NoHandle
    /\ timers = {}
    /\ cycles = [c \in CycleIds |-> IdleCycle]
    /\ launched = 0
    /\ incidents = << >>
    /\ logs = << >>
    /\ now = 0
    /\ patch = IdlePatch
    /\ evt = IdleEvt
    /\ resWrites = << >>
    /\ startCalls = 0
    /\ stopCalls = 0
    /\ nimApiAvailable = TRUE
    /\ NIM_API_KEY = TRUE
    /\ analysis = IdleAnalysis
    /\ services = Services
    /\ faults = 0
    /\ approval = IdleApproval
    /\ mcp = IdleMcp
    /\ server = "listening"

NextBoot ==
    \/ listenCallback
    \/ \E dbConnected \in BOOLEAN : connectDB(dbConnected)
    \/ delayedStart
    \/ shutdownSignal
    \/ serverClosed
    \/ server # "exited" /\ \E h \in 1..MaxTimers : timerTick(h)
    \/ server # "exited" /\ CycleNext

SpecBoot == InitBoot /\ [][NextBoot]_vars

\* Auto-resolution: the running monitor, the clock, and incidents reported
\* through POST /events.
NextAuto ==
    \/ \E h \in 1..MaxTimers : timerTick(h)
    \/ CycleNext
    \/ \E c \in CycleIds : autoResolveIncident(c)
    \/ \E c \in CycleIds : autoResolveLog(c)
    \/ \E type \in EventTypes : eventCreate(type)
    \/ eventLog
    \/ Tick

SpecAuto == InitStarted /\ [][NextAuto]_vars

\* Concurrent writers: auto-resolution by the running monitor next to the
\* engineer's PATCH /:id/status requests, on the incident that one
\* CPU_SPIKE event sent to POST /events has recorded. No service is
\* registered, so Service.find answers an empty list and a health check
\* ends after its incidents.
InitRace ==
    /\ isRunning = TRUE
    /\ intervalId = 1
    /\ timers = {1}
    /\ cycles = [c \in CycleIds |->
                    IF c = 1 THEN [IdleCycle EXCEPT !.pc = "findOpen",
                                                   !.src = "immediate"]
                             ELSE IdleCycle]
    /\ launched = 1
    /\ now = 0
    /\ incidents = << EventIncident("CPU_SPIKE") >>
    /\ logs = << << NewLog(1, "error", "CPU_SPIKE") >> >>
    /\ patch = IdlePatch
    /\ evt = IdleEvt
    /\ resWrites = << 0 >>
    /\ startCalls = 1
    /\ stopCalls = 0
    /\ nimApiAvailable = TRUE
    /\ NIM_API_KEY = TRUE
    /\ analysis = IdleAnalysis
    /\ services = {}
    /\ faults = 0
    /\ approval = IdleApproval
    /\ mcp = IdleMcp
    /\ server = "scheduled"

NextRace ==
    \/ \E h \in 1..MaxTimers : timerTick(h)
    \/ \E c \in CycleIds : performHealthCheck(c)
    \/ \E c \in CycleIds : checkIncidentHealth(c)
    \/ \E c \in CycleIds : autoResolveIncident(c)
    \/ \E c \in CycleIds : autoResolveLog(c)
    \/ Tick
    \/ PatchNext

SpecRace == InitRace /\ [][NextRace]_vars

\* The trend and the status suggestion over drawn log lists. The logs of
\* the incident are of four ages in minutes, inside the 5-, the 15- and the
\* 30-minute window and outside all; of each age there are up to
\* MaxAgeErrors error logs (failed health checks) and MaxAgeInfos info logs
\* (status changes). The analysis has classified the incident and is about
\* to build its result.
LogAges == << 40, 20, 10, 0 >>

Repeat(x, n) == [k \in 1..n |-> x]

RECURSIVE DrawnLogs(_, _, _, _)
DrawnLogs(errs, infos, t, k) ==
    IF k > Len(LogAges) THEN << >>
    ELSE Repeat([incidentId |-> 1, level |-> "error",
                 message |-> "health_check_failed",
                 createdAt |-> t - LogAges[k]], errs[k])
         \o Repeat([incidentId |-> 1, level |-> "info",
                    message |-> "status_updated",
                    createdAt |-> t - LogAges[k]], infos[k])
         \o DrawnLogs(errs, infos, t, k + 1)

InitTrend ==
    /\ isRunning = FALSE
    /\ intervalId = NoHandle
    /\ timers = {}
    /\ cycles = [c \in CycleIds |-> IdleCycle]
    /\ launched = 0
    /\ now = 40
    /\ \E errs \in [1..Len(LogAges) -> 0..MaxAgeErrors],
          infos \in [1..Len(LogAges) -> 0..MaxAgeInfos],
          severity \in {"low", "medium", "high"} :
          LET lg == DrawnLogs(errs, infos, 40, 1)
              d == [NewIncident(1, "Health Check Failed", "medium",
                                "performance", "open")
                       EXCEPT !.createdAt = 0]
          IN  /\ incidents = << d >>
              /\ logs = << lg >>
              /\ analysis = [IdleAnalysis EXCEPT
                                !.pc = "related", !.entry = "readOnly",
                                !.id = 1, !.status = "open",
                                !.task = "rootCause", !.via = "fallback",
                                !.logs = lg, !.severity = severity,
                                !.category = "performance",
                                !.rootCause = "Cascading failures"]
    /\ patch = IdlePatch
    /\ evt = IdleEvt
    /\ resWrites = << 0 >>
    /\ startCalls = 0
    /\ stopCalls = 0
    /\ nimApiAvailable = TRUE
    /\ NIM_API_KEY = FALSE
    /\ services = Services
    /\ faults = 0
    /\ approval = IdleApproval
    /\ mcp = IdleMcp
    /\ server = "scheduled"

NextTrend == analysisReturn

SpecTrend == InitTrend /\ [][NextTrend]_vars

\* The health check of one service over the wider range of answers.
NextProbe ==
    \/ \E h \in 1..MaxTimers : timerTick(h)
    \/ \E c \in CycleIds : performHealthCheck(c)
    \/ \E c \in CycleIds : checkIncidentHealth(c)
    \/ \E c \in CycleIds, r \in HealthAnswers : monitorService(c, r)
    \/ \E c \in CycleIds : handleExistingLog(c)
    \/ \E c \in CycleIds : handleExistingUpdate(c)
    \/ \E c \in CycleIds : handleCreateIncident(c)
    \/ \E c \in CycleIds : handleCreateLog(c)

SpecProbe == InitStarted /\ [][NextProbe]_vars

\* Every writer of one incident next to the others: the monitor's health
\* checks with auto-resolution, PATCH /:id/status, approve-action and the
\* recording analysis of ai/agent.js, on the incident that one AUTH_FAILURE
\* event recorded an hour ago and that an engineer then moved to
\* investigating. No credential is configured, so the analysis is answered
\* by the fallbacks.
InitWriters ==
    /\ isRunning = TRUE
    /\ intervalId = 1
    /\ timers = {1}
    /\ cycles = [c \in CycleIds |->
                    IF c = 1 THEN [IdleCycle EXCEPT !.pc = "findOpen",
                                                   !.src = "immediate"]
                             ELSE IdleCycle]
    /\ launched = 1
    /\ now = 2 * TickMinutes
    /\ LET created == [EventIncident("AUTH_FAILURE") EXCEPT !.createdAt = 0]
           p == [ pc |-> "update", id |-> 1, status |-> "investigating",
                  oldStatus |-> created.status, createdAt |-> 0 ]
       IN  /\ incidents = << StatusUpdated(created, p) >>
           /\ logs = << << [NewLog(1, "error", "AUTH_FAILURE") EXCEPT
                               !.createdAt = 0],
                          [NewLog(1, "info", "status_updated") EXCEPT
                               !.createdAt = 0] >> >>
    /\ patch = IdlePatch
    /\ evt = IdleEvt
    /\ resWrites = << 0 >>
    /\ startCalls = 1
    /\ stopCalls = 0
    /\ nimApiAvailable = TRUE
    /\ NIM_API_KEY = FALSE
    /\ analysis = IdleAnalysis
    /\ services = {}
    /\ faults = 0
    /\ approval = IdleApproval
    /\ mcp = IdleMcp
    /\ server = "scheduled"

NextWriters ==
    \/ \E c \in CycleIds : performHealthCheck(c)
    \/ \E c \in CycleIds : checkIncidentHealth(c)
    \/ \E c \in CycleIds : autoResolveIncident(c)
    \/ \E c \in CycleIds : autoResolveLog(c)
    \/ PatchNext
    \/ \E id \in 0..MaxIncidents, k \in ActionIndexes : approveAction(id, k)
    \/ \E id \in 0..MaxIncidents : analyzeIncident(id)
    \/ analysisLogs
    \/ analysisGate
    \/ analysisRecord

SpecWriters == InitWriters /\ [][NextWriters]_vars

\* Store faults: the running monitor with two registered services and a
\* store whose operations may throw.
InitFaults ==
    /\ isRunning = TRUE
    /\ intervalId = 1
    /\ timers = {1}
    /\ cycles = [c \in CycleIds |->
                    IF c = 1 THEN [IdleCycle EXCEPT !.pc = "findOpen",
                                                   !.src = "immediate"]
                             ELSE IdleCycle]
    /\ launched = 1
    /\ incidents = << >>
    /\ logs = << >>
    /\ now = 0
    /\ patch = IdlePatch
    /\ evt = IdleEvt
    /\ resWrites = << >>
    /\ startCalls = 1
    /\ stopCalls = 0
    /\ nimApiAvailable = TRUE
    /\ NIM_API_KEY = TRUE
    /\ analysis = IdleAnalysis
    /\ services = TwoServices
    /\ faults = 0
    /\ approval = IdleApproval
    /\ mcp = IdleMcp
    /\ server = "scheduled"

NextFaults ==
    \/ start
    \/ stop
    \/ \E h \in 1..MaxTimers : timerTick(h)
    \/ CycleNext
    \/ \E c \in CycleIds : handlerStoreFails(c)
    \/ \E c \in CycleIds : handleUnreachableFind(c)
    \/ \E c \in CycleIds : findOpenFails(c)
    \/ \E c \in CycleIds : checkLogsFails(c)

SpecFaults == InitFaults /\ [][NextFaults]_vars

\* The analysis: incidents reported through POST /events and analysed, with
\* and without a configured API key.
InitAnalysis ==
    /\ isRunning = FALSE
    /\ intervalId = NoHandle
    /\ timers = {}
    /\ cycles = [c \in CycleIds |-> IdleCycle]
    /\ launched = 0
    /\ incidents = << >>
    /\ logs = << >>
    /\ now = 0
    /\ patch = IdlePatch
    /\ evt = IdleEvt
    /\ resWrites = << >>
    /\ startCalls = 0
    /\ stopCalls = 0
    /\ nimApiAvailable = TRUE
    /\ NIM_API_KEY \in BOOLEAN
    /\ analysis = IdleAnalysis
    /\ services = Services
    /\ faults = 0
    /\ approval = IdleApproval
    /\ mcp = IdleMcp
    /\ server = "scheduled"

NextAnalysis ==
    \/ \E type \in EventTypes : eventCreate(type)
    \/ eventLog
    \/ \E id \in 0..MaxIncidents : analyzeIncidentReadOnly(id)
    \/ analysisLogs
    \/ analysisGate
    \/ \E reply \in Replies : nimReply(reply)
    \/ analysisReturn

SpecAnalysis == InitAnalysis /\ [][NextAnalysis]_vars

\* The store once POST /events has recorded one event and an engineer has
\* sent at most one PATCH /:id/status for it; nothing is in flight.
InitAgent ==
    /\ isRunning = FALSE
    /\ intervalId = NoHandle
    /\ timers = {}
    /\ cycles = [c \in CycleIds |-> IdleCycle]
    /\ launched = 0
    /\ now \in {0, TickMinutes}
    /\ \E type \in EventTypes, s \in ValidStatuses \cup {"none"} :
          LET created == [EventIncident(type) EXCEPT !.createdAt = 0]
              event == [NewLog(1, "error", type) EXCEPT !.createdAt = 0]
              p == [ pc |-> "update", id |-> 1, status |-> s,
                     oldStatus |-> created.status, createdAt |-> 0 ]
          IN  IF s = "none"
                THEN /\ incidents = << created >>
                     /\ logs = << << event >> >>
                     /\ resWrites = << 0 >>
                ELSE /\ incidents = << StatusUpdated(created, p) >>
                     /\ logs = << << event,
                                    NewLog(1, "info", "status_updated") >> >>
                     /\ resWrites = << IF WritesResolution(p) THEN 1
                                                              ELSE 0 >>
    /\ patch = IdlePatch
    /\ evt = IdleEvt
    /\ startCalls = 0
    /\ stopCalls = 0
    /\ nimApiAvailable = TRUE
    /\ NIM_API_KEY \in BOOLEAN
    /\ analysis = IdleAnalysis
    /\ services = Services
    /\ faults = 0
    /\ approval = IdleApproval
    /\ mcp = IdleMcp
    /\ server = "scheduled"

\* Both analysis entry points: the read-only service function and the
\* recording handler of ai/agent.js.
NextAgent ==
    \/ \E id \in 0..MaxIncidents : analyzeIncidentReadOnly(id)
    \/ \E id \in 0..MaxIncidents : analyzeIncident(id)
    \/ analysisLogs
    \/ analysisGate
    \/ \E reply \in Replies : nimReply(reply)
    \/ analysisReturn
    \/ analysisRecord

SpecAgent == InitAgent /\ [][NextAgent]_vars

\* Recovery: the monitor runs on, its one service has recovered and answers
\* healthy from now on, and no engineer acts. An hour ago a failed health
\* check created the incident of the service and wrote its error log; the
\* incident is still open, or an engineer moved it to investigating then.
\* The runtime serves every timer and every pending continuation, which is
\* weak fairness of the steps.
HealthyAnswer ==
    [kind |-> "response", http |-> 200, status |-> "healthy",
     responseTime |-> 100, heapUsed |-> 100, activeFailureModes |-> {}]

InitRecovered ==
    /\ isRunning = TRUE
    /\ intervalId = 1
    /\ timers = {1}
    /\ cycles = [c \in CycleIds |->
                    IF c = 1 THEN [IdleCycle EXCEPT !.pc = "findOpen",
                                                   !.src = "immediate"]
                             ELSE IdleCycle]
    /\ launched = 1
    /\ now = 2 * TickMinutes
    /\ \E s \in {"none", "investigating"}, r \in ProbeResponses :
          /\ ~(r.kind = "response" /\ isHealthy(r))
          /\ LET h == IF r.kind = "error" THEN "unreachable" ELSE "unhealthy"
                 created == [HandlerIncident(h, 1, r) EXCEPT !.createdAt = 0]
                 failed == [NewLog(1, "error", HandlerMessage(h)) EXCEPT
                               !.createdAt = 0]
                 p == [ pc |-> "update", id |-> 1, status |-> s,
                        oldStatus |-> "open", createdAt |-> 0 ]
             IN  IF s = "none"
                   THEN /\ incidents = << created >>
                        /\ logs = << << failed >> >>
                   ELSE /\ incidents = << StatusUpdated(created, p) >>
                        /\ logs = << << failed,
                                       [NewLog(1, "info", "status_updated")
                                           EXCEPT !.createdAt = 0] >> >>
    /\ patch = IdlePatch
    /\ evt = IdleEvt
    /\ resWrites = << 0 >>
    /\ startCalls = 1
    /\ stopCalls = 0
    /\ nimApiAvailable = TRUE
    /\ NIM_API_KEY = TRUE
    /\ analysis = IdleAnalysis
    /\ services = Services
    /\ faults = 0
    /\ approval = IdleApproval
    /\ mcp = IdleMcp
    /\ server = "scheduled"

\* The promise of the performHealthCheck invocation launched last has
\* settled: nothing of it is left, and the interval can launch the next one.
performHealthCheckReturns ==
    /\ launched > 0
    /\ cycles[launched].pc = "done"
    /\ cycles' = [cycles EXCEPT ![launched] = IdleCycle]
    /\ launched' = launched - 1
    /\ UNCHANGED analysisVars
    /\ UNCHANGED envVars
    /\ UNCHANGED << approval, mcp, server >>
    /\ UNCHANGED << monitorVars, storeVars, now, patch, evt >>

CycleStep(c) ==
    \/ performHealthCheck(c)
    \/ checkIncidentHealth(c)
    \/ autoResolveIncident(c)
    \/ autoResolveLog(c)
    \/ monitorService(c, HealthyAnswer)

NextRecovered ==
    \/ \E h \in 1..MaxTimers : timerTick(h)
    \/ \E c \in CycleIds : CycleStep(c)
    \/ performHealthCheckReturns

SpecRecovered ==
    /\ InitRecovered
    /\ [][NextRecovered]_vars
    /\ WF_vars(\E h \in 1..MaxTimers : timerTick(h))
    /\ \A c \in CycleIds : WF_vars(CycleStep(c))
    /\ WF_vars(performHealthCheckReturns)

\* Every writer of the store on the incident of a monitored service: the
\* health check with its probes, handlers and auto-resolution, PATCH
\* /:id/status and approve-action, an hour after a failed health check
\* created the incident.
NextStore ==
    \/ CycleNext
    \/ \E c \in CycleIds : autoResolveIncident(c)
    \/ \E c \in CycleIds : autoResolveLog(c)
    \/ PatchNext
    \/ \E id \in 0..MaxIncidents, k \in ActionIndexes : approveAction(id, k)

SpecStore == InitRecovered /\ [][NextStore]_vars

\* PATCH /:id/status over every request, accepted or refused.
NextPatch ==
    \/ \E id \in RequestedIds, s \in RequestedStatuses : patchBegin(id, s)
    \/ patchUpdate
    \/ patchLog
    \/ \E id \in RequestedIds, s \in RequestedStatuses : patchRefused(id, s)

SpecPatch == InitAgent /\ [][NextPatch]_vars

\* The read-only analysis and approve-action on one incident.
NextApprove ==
    \/ \E id \in 0..MaxIncidents : analyzeIncidentReadOnly(id)
    \/ analysisLogs
    \/ analysisGate
    \/ \E reply \in Replies : nimReply(reply)
    \/ analysisReturn
    \/ \E id \in 0..MaxIncidents, k \in ActionIndexes : approveAction(id, k)

SpecApprove == InitAgent /\ [][NextApprove]_vars

\* The entry points of the AI: tools/call of the MCP endpoint with its
\* three tools, agent actions behind the guard, and the analysis handler of
\* ai/agent.js, on the incident of an AUTH_FAILURE event that an engineer
\* moved to investigating. No credential is configured, so the analyses
\* are answered by the fallbacks.
NextMcp ==
    \/ \E name \in RequestedNames, id \in 0..MaxIncidents : toolsCall(name, id)
    \/ \E action \in RequestedNames, id \in 0..MaxIncidents :
          toolGuard(action, id)
    \/ runAgent
    \/ \E id \in 0..MaxIncidents : analyzeIncidentReadOnly(id)
    \/ \E id \in 0..MaxIncidents : analyzeIncident(id)
    \/ analysisLogs
    \/ analysisGate
    \/ analysisReturn
    \/ analysisRecord

SpecMcp == InitWriters /\ [][NextMcp]_vars

(* ------------------------------- properties ---------------------------- *)
\* A step of health check c: its record changes.
Steps(c) == cycles'[c] # cycles[c]

\* C1: in every reachable state each monitored service is referenced by at
\* most one incident whose status is open or investigating.
C1_AtMostOneOpenPerService ==
    \A svc \in Services : OpenCount(svc) <= 1

\* C2: two health checks in flight at the same time are never both past the
\* "no existing open incident" check (Incident.findOne answered null) for
\* the same failed service, each creating an incident of its own for it.
C2_NoDoubleCreate ==
    \A c1, c2 \in CycleIds :
        (/\ c1 # c2
         /\ cycles[c1].pc \in {"hCreate", "hNewLog"}
         /\ cycles[c2].pc \in {"hCreate", "hNewLog"})
        => Head(cycles[c1].svcs) # Head(cycles[c2].svcs)

C4_ExistingIncidentUpdated ==
    [][ \A c \in CycleIds :
          LET e == cycles[c].existing
          IN  /\ (cycles[c].pc = "probe" /\ cycles'[c].pc = "hCreate")
                 => FindOpenIncident(Head(cycles[c].svcs)) = NoIncident
              /\ (cycles[c].pc = "hLog" /\ Steps(c))
                 => /\ incidents' = incidents
                    /\ Len(logs'[e]) = Len(logs[e]) + 1
                    /\ SubSeq(logs'[e], 1, Len(logs[e])) = logs[e]
                    /\ logs'[e][Len(logs'[e])].level = "error"
                    /\ \A i \in IncidentIds \ {e} : logs'[i] = logs[i]
                    /\ cycles'[c].pc = "hUpd"
              /\ (cycles[c].pc = "hUpd" /\ Steps(c))
                 => /\ logs' = logs
                    /\ Len(incidents') = Len(incidents)
                    /\ incidents'[e].logCount = incidents[e].logCount + 1
                    /\ incidents'[e].errorCount = incidents[e].errorCount + 1
                    /\ incidents'[e].status = incidents[e].status
                    /\ incidents'[e].timeline = incidents[e].timeline
                    /\ \A i \in IncidentIds \ {e} :
                          incidents'[i] = incidents[i]
                    /\ cycles'[c].pc \in {"probe", "done"} ]_vars

\* A failed check has updated an existing open incident: two error logs,
\* both counters at 2, one incident.
C4_Witness ==
    \E i \in IncidentIds :
        /\ incidents[i].status = "open"
        /\ incidents[i].logCount = 2
        /\ incidents[i].errorCount = 2
        /\ CountLevel(logs[i], "error") = 2
        /\ Len(incidents) = 1

\* The logs of the last 30 minutes, as the claim counts them.
InWindow(lg, t) == SelectSeq(lg, LAMBDA l : t - l.createdAt <= ThirtyMin)

\* C5: a health check that looks at an incident it read as investigating,
\* none of whose logs of the last 30 minutes is error-level and fewer than
\* 2 of them warning-level, goes on to auto-resolve it.
C5_QuietInvestigatingIsAutoResolved ==
    [][ \A c \in CycleIds :
          (/\ cycles[c].pc = "chkLogs"
           /\ Steps(c)
           /\ Head(cycles[c].todo).status = "investigating"
           /\ LET recent == InWindow(LogsOf(logs, Head(cycles[c].todo).id),
                                     now)
              IN  /\ CountLevel(recent, "error") = 0
                  /\ CountLevel(recent, "warning") < 2)
          => cycles'[c].pc = "autoUpd" ]_vars

\* C6: the resolution fields of an incident are written at most once, and
\* only by a step that moves its status into a resolved-like status.
C6_ResolutionWrittenOnce ==
    [][ \A i \in DOMAIN resWrites :
          resWrites'[i] # resWrites[i]
          => /\ resWrites[i] = 0
             /\ incidents[i].status \notin ResolvedStatuses
             /\ incidents'[i].status \in ResolvedStatuses ]_vars

\* C10: start() on a running monitor changes nothing: no timer is added and
\* no health check is launched. A running monitor holds exactly one active
\* timer, and a stopped one none.
C10_StartIsIdempotent ==
    /\ [](Cardinality(timers) = IF isRunning THEN 1 ELSE 0)
    /\ [][ (startCalls' # startCalls /\ isRunning)
           => UNCHANGED << isRunning, intervalId, timers, cycles,
                           launched >> ]_vars

\* start() was called twice in a row: one timer, one immediate health check.
C10_Witness ==
    /\ startCalls = 2
    /\ isRunning
    /\ Cardinality(timers) = 1
    /\ launched = 1
    /\ cycles[1].src = "immediate"

Severities == {"low", "medium", "high"}
Categories == {"database", "network", "authentication", "deployment",
               "performance"}
StatusSuggestions == {"needs_investigation", "likely_root_cause_identified",
                      "ready_for_resolution"}
AnalysisErrors == {"Incident ID is required", "Incident not found",
                   "Insufficient data for analysis"}

\* C7: once a backend call has returned 401 or 403 (nimApiAvailable is FALSE
\* exactly then: the catch blocks are its only writers) no call to a
\* backend is in flight, the secondary attempt of the same task included.
C7_NoCallAfterAuthFailure ==
    ~nimApiAvailable => analysis.pc \notin {"primary", "secondary"}

\* C8: for the classification task at hand: without a credential, or with
\* the flag set when the task began, no backend is called; otherwise the
\* primary model is called first, the secondary only after the primary's
\* result was rejected, the fallback answers only after both were rejected,
\* and a task answered by a model has called no model after it.
C8_CascadeOrder ==
    LET t == analysis.trail
    IN  /\ ~NIM_API_KEY => t = << >>
        /\ (~nimApiAvailable
              /\ \A k \in DOMAIN t : t[k].status \notin {401, 403})
           => t = << >>
        /\ Len(t) <= 2
        /\ Len(t) >= 1 => t[1].model = PRIMARY_MODEL
        /\ Len(t) = 2 => t[2].model = SECONDARY_MODEL /\ ~t[1].accepted
        /\ analysis.pc = "primary" => t = << >>
        /\ analysis.pc = "secondary" => Len(t) = 1
        /\ analysis.via = "primary" => Len(t) = 1 /\ t[1].accepted
        /\ analysis.via = "secondary" => Len(t) = 2 /\ t[2].accepted
        /\ analysis.via = "fallback"
           => \/ t = << >> /\ (~nimApiAvailable \/ ~NIM_API_KEY)
              \/ Len(t) = 2 /\ ~t[1].accepted /\ ~t[2].accepted

\* The root-cause task was answered by the secondary model after the primary
\* model's answer was rejected.
C8_Witness ==
    /\ analysis.task = "rootCause"
    /\ analysis.via = "secondary"
    /\ Len(analysis.trail) = 2
    /\ analysis.trail[1].status = 200

C11_NoCycleAfterStop ==
    [][ /\ launched' # launched
           => /\ isRunning'
              /\ isRunning \/ startCalls' # startCalls
        /\ stopCalls' # stopCalls
           => /\ ~isRunning' /\ timers' = {} /\ intervalId' = NoHandle
              /\ UNCHANGED << cycles, launched, incidents, logs >>
              /\ ~isRunning => UNCHANGED << isRunning, intervalId, timers >>
      ]_vars

\* stop() was called twice in a row after a start(): the monitor is stopped,
\* only the immediate health check was ever launched, and it has finished.
C11_Witness ==
    /\ stopCalls = 2
    /\ startCalls = 1
    /\ ~isRunning
    /\ launched = 1
    /\ cycles[1].pc = "done"

\* The health checks that have begun and not finished.
InFlight == { c \in CycleIds : cycles[c].pc \notin {"idle", "done"} }

\* C12: at most one health check is in flight at any time.
C12_SingleFlight == Cardinality(InFlight) <= 1

\* How many auto_resolve_detected events the timeline tl holds, and how many
\* auto-resolution logs the log list lg holds.
AutoResolveEvents(tl) ==
    Len(SelectSeq(tl, LAMBDA ev : ev.event = "auto_resolve_detected"))
AutoResolveLogs(lg) ==
    Len(SelectSeq(lg, LAMBDA l : l.message = "auto_resolved"))

\* C13: auto-resolution is applied at most once per incident: its timeline
\* holds at most one auto_resolve_detected event, its logs at most one
\* auto-resolution log, and its resolution fields were written at most once.
C13_AutoResolveOnce ==
    \A i \in IncidentIds :
        /\ AutoResolveEvents(incidents[i].timeline) <= 1
        /\ AutoResolveLogs(LogsOf(logs, i)) <= 1
        /\ resWrites[i] <= 1

\* C14: a health check never ends with services it has not probed behind
\* the one it was dealing with.
C14_RemainingServicesProbed ==
    \A c \in CycleIds :
        cycles[c].pc = "done" => Len(cycles[c].svcs) <= 1

\* C15: while the monitor is running its recurring timer is active, and no
\* step other than stop() (a store fault, a probe error, any step of a
\* health check) clears the running flag or touches the timer; a step in
\* which a store operation throws launches and cancels nothing.
C15_ErrorsLeaveTimerRunning ==
    /\ [](isRunning => intervalId \in timers)
    /\ [][ /\ (isRunning /\ stopCalls' = stopCalls)
              => /\ isRunning'
                 /\ timers' = timers
                 /\ intervalId' = intervalId
           /\ faults' # faults
              => UNCHANGED << isRunning, timers, intervalId, launched >>
         ]_vars

\* Store operations threw in the first health check, which is over, and the
\* timer of the still running monitor has started the next one.
C15_Witness ==
    /\ faults = MaxFaults
    /\ isRunning
    /\ stopCalls = 0
    /\ cycles[1].pc = "done"
    /\ Len(cycles[1].svcs) = 2
    /\ cycles[2].pc = "findOpen"
    /\ cycles[2].src = "timer"

\* C16: a failed check of a service that has no open or investigating
\* incident takes the creation path; on it exactly one incident is added,
\* for that service, with status open, a timeline holding the single event
\* incident_detected and logCount = errorCount = 1, and then exactly one
\* error-level log is appended that belongs to it, after which the handler
\* is done with the service.
C16_FreshIncidentCreated ==
    [][ \A c \in CycleIds :
          LET e == cycles[c].existing
              n == Len(incidents) + 1
          IN  /\ (/\ cycles[c].pc = "probe"
                  /\ cycles'[c].pc \in {"hLog", "hCreate"}
                  /\ FindOpenIncident(Head(cycles[c].svcs)) = NoIncident)
                 => cycles'[c].pc = "hCreate"
              /\ (cycles[c].pc = "hCreate" /\ Steps(c))
                 => /\ Len(incidents') = n
                    /\ SubSeq(incidents', 1, n - 1) = incidents
                    /\ incidents'[n].svc = Head(cycles[c].svcs)
                    /\ incidents'[n].status = "open"
                    /\ Len(incidents'[n].timeline) = 1
                    /\ incidents'[n].timeline[1].event = "incident_detected"
                    /\ incidents'[n].logCount = 1
                    /\ incidents'[n].errorCount = 1
                    /\ LogsOf(logs', n) = << >>
                    /\ cycles'[c].pc = "hNewLog"
                    /\ cycles'[c].existing = n
              /\ (cycles[c].pc = "hNewLog" /\ Steps(c))
                 => /\ incidents' = incidents
                    /\ Len(logs'[e]) = Len(logs[e]) + 1
                    /\ SubSeq(logs'[e], 1, Len(logs[e])) = logs[e]
                    /\ logs'[e][Len(logs'[e])].level = "error"
                    /\ logs'[e][Len(logs'[e])].incidentId = e
                    /\ \A i \in IncidentIds \ {e} : logs'[i] = logs[i]
                    /\ cycles'[c].pc \in {"probe", "done"} ]_vars

\* The first health check found the service failed with no incident for it
\* and is done: one open incident with one event, one error log, counters 1.
C16_Witness ==
    /\ cycles[1].pc = "done"
    /\ Len(incidents) = 1
    /\ incidents[1].status = "open"
    /\ Len(incidents[1].timeline) = 1
    /\ incidents[1].logCount = 1
    /\ incidents[1].errorCount = 1
    /\ Len(logs[1]) = 1
    /\ logs[1][1].level = "error"

\* The analysis events in a timeline.
AnalysisEvents(tl) ==
    SelectSeq(tl, LAMBDA e : e.event = "ai_analysis_completed")

\* C17: every step of an analysis, whichever entry point runs it and
\* whatever the models answer, leaves each incident's status, resolvedAt,
\* resolutionTime and resolvedBy as they were, creates and removes no
\* incident and no log, and changes an incident at most by appending one
\* "ai_analysis_completed" event of actor "ai" to the timeline of the
\* incident analysed.
C17_AnalysisLeavesStatus ==
    [][ analysis' # analysis =>
          /\ Len(incidents') = Len(incidents)
          /\ logs' = logs
          /\ resWrites' = resWrites
          /\ \A i \in IncidentIds :
                /\ incidents'[i].status = incidents[i].status
                /\ incidents'[i].resolvedAt = incidents[i].resolvedAt
                /\ incidents'[i].resolutionTime = incidents[i].resolutionTime
                /\ incidents'[i].resolvedBy = incidents[i].resolvedBy
                /\ \/ incidents'[i] = incidents[i]
                   \/ /\ i = analysis.id
                      /\ \E e \in { [event |-> "ai_analysis_completed",
                                      status |-> st, actor |-> "ai"] :
                                        st \in ValidStatuses } :
                            incidents'[i] = [incidents[i] EXCEPT
                                                !.timeline = Append(@, e)] ]_vars

C17_Witness ==
    /\ analysis.pc = "done"
    /\ analysis.entry = "agent"
    /\ analysis.outcome = "result"
    /\ ~nimApiAvailable
    /\ incidents[1].status = "resolved"
    /\ incidents[1].resolvedBy = "engineer"
    /\ incidents[1].resolvedAt = TickMinutes
    /\ Len(AnalysisEvents(incidents[1].timeline)) = 1
    /\ analysis.via = "fallback"

\* C18: the unavailability flag is set only by a reply of status 401 or
\* 403: a timeout, a reply without choices, an answer that matches no legal
\* value and a 5xx error all leave it as it was. So with the credential
\* configured and no authentication failure met, the next classification
\* task that is entered calls the primary model first.
C18_TransientFailuresRetried ==
    [][ /\ nimApiAvailable' # nimApiAvailable
           => /\ ~nimApiAvailable'
              /\ analysis.pc \in {"primary", "secondary"}
              /\ analysis'.trail # << >>
              /\ analysis'.trail[Len(analysis'.trail)].status \in {401, 403}
        /\ ( /\ analysis.pc = "gate"
             /\ analysis'.pc # "related"
             /\ analysis' # analysis
             /\ nimApiAvailable
             /\ NIM_API_KEY )
           => /\ analysis'.pc = "primary"
              /\ analysis'.trail = << >>
              /\ analysis'.task = NextTask(analysis.task) ]_vars

\* The category task is about to be entered: both models failed on the severity task, with a
\* 5xx error and a timeout, the fallback answered, and the flag is not set.
C18_Witness ==
    /\ analysis.pc = "gate"
    /\ analysis.task = "severity"
    /\ analysis.via = "fallback"
    /\ Len(analysis.trail) = 2
    /\ analysis.trail[1].status = 500
    /\ analysis.trail[2].status = 0
    /\ nimApiAvailable
    /\ NIM_API_KEY

\* C19: writes to one incident are serialized: the outcome of an engineer's
\* status change racing with the monitor's auto-resolution is that of one
\* of the two serial orders. In both orders an auto-resolution is applied
\* only to an incident that is still open or investigating, so no step
\* takes an incident that an engineer has moved to "resolved" to
\* "auto-resolved".
C19_ResolvedNotOverwritten ==
    [][ \A i \in IncidentIds :
           incidents[i].status = "resolved"
              => incidents'[i].status # "auto-resolved" ]_vars

\* The operation that pushed a timeline event / wrote a log, for the two
\* operations that do both: PATCH /:id/status and autoResolveIncident.
OpsOfTimeline(tl) ==
    LET ops == SelectSeq(tl, LAMBDA e :
                   e.event \in {"status_change", "auto_resolve_detected"})
    IN  [k \in 1..Len(ops) |->
            IF ops[k].event = "status_change" THEN "patch" ELSE "auto"]

OpsOfLogs(lg) ==
    LET ops == SelectSeq(lg, LAMBDA l :
                   l.message \in {"status_updated", "auto_resolved"})
    IN  [k \in 1..Len(ops) |->
            IF ops[k].message = "status_updated" THEN "patch" ELSE "auto"]

\* s can be obtained from t by leaving entries out.
RECURSIVE IsSubsequence(_, _)
IsSubsequence(s, t) ==
    IF s = << >> THEN TRUE
    ELSE IF t = << >> THEN FALSE
    ELSE IF Head(s) = Head(t) THEN IsSubsequence(Tail(s), Tail(t))
    ELSE IsSubsequence(s, Tail(t))

\* C20: within one incident the logs of status changes and
\* auto-resolutions are in the order of their timeline events: the
\* operations read off the logs are, in order, among the operations read
\* off the timeline (an operation whose log is still to be written is
\* absent from the logs).
C20_LogsFollowTimeline ==
    \A i \in IncidentIds :
        IsSubsequence(OpsOfLogs(LogsOf(logs, i)),
                      OpsOfTimeline(incidents[i].timeline))

IsPrefix(s, t) == Len(s) <= Len(t) /\ SubSeq(t, 1, Len(s)) = s

\* C21: in every step of every operation (health check with
\* auto-resolution, PATCH /:id/status, approve-action, recording analysis)
\* no incident is removed, each incident's timeline before the step is a
\* prefix of its timeline after it, and each incident's logs before the
\* step are a prefix of its logs after it.
C21_TimelineAppendOnly ==
    [][ /\ Len(incidents') >= Len(incidents)
        /\ \A i \in IncidentIds :
              /\ IsPrefix(incidents[i].timeline, incidents'[i].timeline)
              /\ IsPrefix(LogsOf(logs, i), LogsOf(logs', i)) ]_vars

\* The timeline has been appended to by a status change, an
\* auto-resolution and an analysis, and an approval was answered.
C21_Witness ==
    /\ Len(incidents[1].timeline) = 5
    /\ \E k \in 1..5 : incidents[1].timeline[k].event = "auto_resolve_detected"
    /\ \E k \in 1..5 : incidents[1].timeline[k].event = "ai_analysis_completed"
    /\ incidents[1].timeline[5].event = "status_change"
    /\ Len(logs[1]) = 4
    /\ approval.pc = "done"

\* The failed probes that an answer r of a failed service stands for: the
\* health endpoint itself, and the subsystems its body reports as failing.
FailedProbes(r) == {"health"} \cup (r.activeFailureModes \cap {"database", "auth"})

SeverityOfFailures(f) ==
    IF "health" \in f \/ "database" \in f \/ Cardinality(f) >= 2
      THEN "high" ELSE "medium"

CategoryOfFailures(f) ==
    IF "database" \in f THEN "database"
    ELSE IF "auth" \in f THEN "authentication"
    ELSE "performance"

\* C22: the incident that a health check creates for a failed service has
\* the severity and the category that the set of failed probes gives:
\* high if the health or the database probe failed or two probes failed,
\* else medium; database if the database probe failed, else authentication
\* if the auth probe failed, else performance.
C22_ClassifiedByFailedProbes ==
    [][ \A c \in CycleIds :
           (cycles[c].pc = "hCreate" /\ Len(incidents') = Len(incidents) + 1)
           => LET d == incidents'[Len(incidents')]
                  f == FailedProbes(cycles[c].resp)
              IN  /\ d.severity = SeverityOfFailures(f)
                  /\ d.category = CategoryOfFailures(f) ]_vars

\* C23: the monitor takes an answer as healthy exactly if its HTTP status
\* is 200 and its status field is "healthy" or "degraded": a health check
\* enters a handler (reconciliation) for a service only on an answer that
\* is not of that kind: another status code, another status value, or a
\* transport error.
C23_HealthyOrDegradedIsHealthy ==
    [][ \A c \in CycleIds :
           (cycles[c].pc = "probe" /\ cycles'[c].pc \in {"hLog", "hCreate"})
           => LET r == cycles'[c].resp
              IN  \/ r.kind = "error"
                  \/ ~(r.http = 200 /\ r.status \in {"healthy", "degraded"})
      ]_vars

\* The root cause that the first matching rule gives for the words of a
\* text, in the order timeout/connection, database, resource,
\* authentication, with cascading failures as the default.
RootCauseOfText(text) ==
    IF text \cap {"timeout", "connection"} # {}
      THEN "Network/Connection timeout"
    ELSE IF text \cap {"database", "db", "query"} # {}
      THEN "Database performance issue"
    ELSE IF text \cap {"cpu", "memory", "resource"} # {}
      THEN "Resource exhaustion"
    ELSE IF text \cap {"auth", "authentication", "login"} # {}
      THEN "Authentication system failure"
    ELSE "Cascading failures"

\* C24: a root cause answered by the fallback is the one that the first
\* matching rule gives for the incident's title, description and log
\* messages together.
C24_FallbackRootCauseFromText ==
    (analysis.task = "rootCause" /\ analysis.via = "fallback")
       => analysis.rootCause = RootCauseOfText(analysis.text)

Window(lg, w) == SelectSeq(lg, LAMBDA l : now - l.createdAt < w)
WindowSize(lg, w) == IF Window(lg, w) = << >> THEN 1 ELSE Len(Window(lg, w))
WindowErrors(lg, w) == CountLevel(Window(lg, w), "error")

\* C26: the trend of a returned analysis is not degrading for fewer than 3
\* logs; otherwise it is degrading exactly if the error rate of the last 5
\* minutes exceeds that of the last 15 minutes and that one exceeds the
\* rate of the last 30 minutes. The degradation rate is the 5-minute rate
\* minus the 30-minute rate when degrading and 0 otherwise, hence positive
\* exactly when degrading.
C26_TrendFromWindowRates ==
    (analysis.pc = "done" /\ analysis.outcome = "result")
    => LET lg == analysis.logs
           t == analysis.trendAnalysis
           e5 == WindowErrors(lg, 5)
           e15 == WindowErrors(lg, 15)
           e30 == WindowErrors(lg, 30)
           n5 == WindowSize(lg, 5)
           n15 == WindowSize(lg, 15)
           n30 == WindowSize(lg, 30)
           num == t.degradationRate[1]
           den == t.degradationRate[2]
       IN  /\ den > 0
           /\ Len(lg) < 3 => ~t.isDegrading
           /\ Len(lg) >= 3 =>
                 (t.isDegrading <=> (e5 * n15 > e15 * n5
                                      /\ e15 * n30 > e30 * n15))
           /\ t.isDegrading =>
                 num * (n5 * n30) = den * (e5 * n30 - e30 * n5)
           /\ ~t.isDegrading => num = 0
           /\ (num > 0) <=> t.isDegrading

\* A degrading trend: all of the last 5 minutes' logs are errors, two
\* thirds of the last 15 minutes' and half of the last 30 minutes'; the
\* degradation rate is 1 - 1/2.
C26_Witness ==
    /\ analysis.pc = "done"
    /\ analysis.outcome = "result"
    /\ analysis.trendAnalysis.isDegrading
    /\ WindowErrors(analysis.logs, 5) = 1
    /\ WindowSize(analysis.logs, 5) = 1
    /\ WindowErrors(analysis.logs, 15) = 2
    /\ WindowSize(analysis.logs, 15) = 3
    /\ WindowErrors(analysis.logs, 30) = 2
    /\ WindowSize(analysis.logs, 30) = 4
    /\ analysis.trendAnalysis.degradationRate = << 2, 4 >>

\* C27: approve-action with an index that designates no suggested action
\* answers "Invalid action index", an unknown incident "Incident not
\* found", and neither request changes an incident or a log; and once an
\* analysis of an incident has returned at least one suggested action,
\* approve-action of that incident with index 0 is not refused.
C27_ApprovalAfterAnalysis ==
    [][ approval' # approval =>
          /\ approval'.outcome \in {"Incident not found",
                                    "Invalid action index"}
                => UNCHANGED << incidents, logs >>
          /\ ( /\ analysis.pc = "done"
               /\ analysis.outcome = "result"
               /\ analysis.suggestedActions # << >>
               /\ approval'.id = analysis.id
               /\ approval'.actionIndex = 0 )
                => approval'.outcome \notin {"Incident not found",
                                            "Invalid action index"} ]_vars

\* C28: a status change without a status or with a status outside open,
\* investigating, resolved is answered with a validation error, one that
\* names an unknown incident with not-found, and the step that answers so
\* changes no incident and no log; a request that is taken up names a known
\* incident and one of the three statuses.
C28_InvalidPatchRejected ==
    [][ (patch.pc = "idle" /\ patch' # patch) =>
          /\ patch'.status \notin ValidStatuses
                => /\ patch'.outcome \in {"Status is required",
                                          "Invalid status"}
                   /\ patch'.pc = "idle"
                   /\ UNCHANGED << incidents, logs, resWrites >>
          /\ (patch'.status \in ValidStatuses /\ patch'.id \notin IncidentIds)
                => /\ patch'.outcome = "Incident not found"
                   /\ patch'.pc = "idle"
                   /\ UNCHANGED << incidents, logs, resWrites >>
          /\ patch'.pc = "update"
                => patch'.status \in ValidStatuses
                      /\ patch'.id \in IncidentIds ]_vars

\* C29: once its service has recovered and stays healthy, an incident that
\* is open or investigating eventually reaches a resolved-like status while
\* the monitor keeps running, without an engineer acting.
C29_RecoveredIncidentResolves ==
    \A i \in {1} :
        (incidents[i].status \in OpenStatuses)
           ~> (incidents[i].status \in ResolvedStatuses)

\* C30: a healthy verdict for a service is a no-op on the store. The loop
\* turn of a service that does not enter a handler moves on to the next
\* service and leaves every incident, timeline, counter and log as it was,
\* and a handler is entered only for an answer that is not healthy.
C30_HealthyVerdictWritesNothing ==
    [][ \A c \in CycleIds :
           (cycles[c].pc = "probe" /\ cycles'[c] # cycles[c])
           => IF cycles'[c].pc \in {"hLog", "hCreate"}
                THEN \/ cycles'[c].resp.kind = "error"
                     \/ cycles'[c].resp.http # 200
                     \/ cycles'[c].resp.status # "healthy"
                ELSE /\ cycles'[c] = NextService(cycles[c])
                     /\ UNCHANGED << incidents, logs, resWrites >>
      ]_vars

\* Both cycles are through: one found the service failed and created its
\* incident with one log, the other found it healthy and wrote nothing.
C30_Witness ==
    /\ \A c \in CycleIds : cycles[c].pc = "done"
    /\ Len(incidents) = 1
    /\ Len(logs[1]) = 1
    /\ incidents[1].status = "open"


\* C31: for every incident, metadata.logCount and metadata.errorCount never
\* decrease across any operation, and errorCount never exceeds logCount.
C31_CountersMonotone ==
    [][ /\ Len(incidents') >= Len(incidents)
        /\ \A i \in 1..Len(incidents') :
              /\ incidents'[i].errorCount <= incidents'[i].logCount
              /\ i \in IncidentIds
                   => /\ incidents'[i].logCount >= incidents[i].logCount
                      /\ incidents'[i].errorCount >= incidents[i].errorCount
      ]_vars

\* The failed health check counted its log on the existing incident, and
\* the engineer has resolved the incident since.
C31_Witness ==
    /\ incidents[1].logCount = 2
    /\ incidents[1].errorCount = 2
    /\ incidents[1].status = "resolved"
    /\ Len(logs[1]) >= 3


\* The names an entry point accepts.
AllowList(via) == IF via = "agent" THEN ALLOWED_TOOLS ELSE TOOL_DEFINITIONS

\* C32: every entry point of the AI is read-only with respect to the store.
\* No step of a tools/call request, of an agent action or of an analysis
\* changes an incident or a log, and a name outside the allow-list is
\* rejected without any tool running.
C32_AgentEntryPointsReadOnly ==
    [][ /\ UNCHANGED << incidents, logs >>
        /\ (mcp' # mcp /\ mcp'.pc = "done"
              /\ mcp'.name \notin AllowList(mcp'.via))
             => (mcp'.ran = "none" /\ mcp'.outcome # "result")
      ]_vars


\* C33: the backend-available flag is monotone. Once a 401 or 403 has
\* cleared it, no later call outcome sets it back to available.
C33_AvailabilityMonotone ==
    [][ ~nimApiAvailable => ~nimApiAvailable' ]_vars

\* The primary model answered 401 or 403, the secondary model then gave an
\* accepted answer, and the flag is still cleared.
C33_Witness ==
    /\ ~nimApiAvailable
    /\ Len(analysis.trail) = 2
    /\ analysis.trail[1].status \in {401, 403}
    /\ analysis.trail[2].status = 200
    /\ analysis.trail[2].accepted


\* C34: in every reachable state of the monitor, isRunning is true if and
\* only if a recurring timer handle is held (intervalId is not null), after
\* any interleaving of start() and stop() calls.
C34_RunningIffTimerHeld ==
    /\ isRunning <=> intervalId # NoHandle
    /\ intervalId # NoHandle => intervalId \in timers

\* The monitor was started, stopped and started again, and a stop() was
\* also called while it was not running.
C34_Witness ==
    /\ startCalls = 2
    /\ stopCalls = 2
    /\ isRunning
    /\ intervalId # NoHandle


\* C35: once a shutdown signal handler has called stop(), the monitor never
\* becomes running again and no cycle starts afterwards, also when the
\* signal arrives before the delayed start of the server startup has fired.
C35_NoRestartAfterShutdown ==
    [][ stopCalls > 0 => (~isRunning' /\ launched' = launched) ]_vars


\* C36: whenever an incident's status is open or investigating, its
\* resolution fields resolvedAt, resolutionTime and resolvedBy are unset,
\* also after an engineer has re-opened a resolved incident.
C36_OpenHasNoResolution ==
    \A i \in IncidentIds :
        incidents[i].status \in OpenStatuses
           => /\ incidents[i].resolvedAt = Unset
              /\ incidents[i].resolutionTime = Unset
              /\ incidents[i].resolvedBy = "unset"


\* C37: the status field of every timeline event equals the status of the
\* incident immediately after the operation that appended it; the event of
\* an auto-resolution carries the status the incident is moved to.
C37_EventCarriesStatusAfter ==
    [][ \A i \in 1..Len(incidents') :
           LET before == IF i \in IncidentIds
                           THEN Len(incidents[i].timeline) ELSE 0
               after == incidents'[i].timeline
           IN  Len(after) > before
                 => after[Len(after)].status = incidents'[i].status
      ]_vars


\* No operation is in flight: every health check launched is over and no
\* request is between two of its store operations.
Quiescent ==
    /\ \A c \in CycleIds : cycles[c].pc \in {"idle", "done"}
    /\ patch.pc = "idle"
    /\ evt.pc = "idle"
    /\ approval.pc \in {"idle", "done"}
    /\ analysis.pc \in {"idle", "done"}

\* C38: in every quiescent state each incident's metadata.errorCount equals
\* the number of its error-level logs and its metadata.logCount equals the
\* number of its logs.
C38_CountersMatchLogs ==
    Quiescent
      => \A i \in IncidentIds :
            /\ incidents[i].errorCount = CountLevel(logs[i], "error")
            /\ incidents[i].logCount = Len(logs[i])


\* C39: a "Service unreachable" log or a "Service Unreachable" incident is
\* recorded for a service only when its HTTP probe itself failed with a
\* transport error; a store exception raised while an unhealthy but
\* reachable response is recorded never has the service recorded as
\* unreachable.
C39_UnreachableOnlyOnTransportError ==
    [][ \A c \in CycleIds :
           Steps(c)
           => /\ \A i \in 1..Len(logs') :
                   ( /\ Len(logs'[i]) > (IF i \in 1..Len(logs)
                                           THEN Len(logs[i]) ELSE 0)
                     /\ logs'[i][Len(logs'[i])].message
                           = "service_unreachable" )
                   => cycles[c].resp.kind = "error"
              /\ ( /\ Len(incidents') > Len(incidents)
                   /\ incidents'[Len(incidents')].title
                         = "Service Unreachable" )
                   => cycles[c].resp.kind = "error"
      ]_vars

====
